---- MODULE Spec2Model ----
(***************************************************************************)
(* A model of the Scribble drawing application (src/main.rs): the          *)
(* ScribbleApp state, its file operations, search, text selection and      *)
(* dragging, the arrow placement heuristic, the PNG line rasteriser and    *)
(* the export bounds.                                                      *)
(*                                                                         *)
(* Conventions.  Vec<T> is a sequence; indices stored in the state         *)
(* (search_results, selected_text_elements, current_page_index) are the    *)
(* 0-based indices of the code, element i of a Vec v is v[i + 1].          *)
(* Option<T> is a sequence of length at most one: None == << >>,           *)
(* Some(v) == << v >>.  A String is a sequence of one-character strings,   *)
(* the line feed being the character NL.  f32 coordinates are integers;    *)
(* font sizes are multiples of 5 so that 1.2 * font_size and               *)
(* 0.6 * font_size are integers as well.                                   *)
(***************************************************************************)
EXTENDS Integers, Sequences, FiniteSets, TLC

----------------------------------------------------------------------------
(* Bounds of the model *)

\* add_new_page is not offered once a notebook holds this many pages
MaxPages == 3
\* the line rasteriser's endpoints range over -MaxCoord .. MaxCoord
MaxCoord == 3
\* the number of drags a behaviour of the Select tool begins
MaxGestures == 2

----------------------------------------------------------------------------
(* Option, Pos2, Color32, Rect *)

None == << >>

Some(v) == << v >>

IsSome(o) == Len(o) = 1

Unwrap(o) == o[1]

Pos2(px, py) == [x |-> px, y |-> py]

\* Pos2 - Pos2 (a Vec2) and Pos2 + Vec2
PosSub(p, q) == [x |-> p.x - q.x, y |-> p.y - q.y]

PosAdd(p, v) == [x |-> p.x + v.x, y |-> p.y + v.y]

\* egui::Color32::from_rgb: an opaque colour
from_rgb(r, g, b) == [r |-> r, g |-> g, b |-> b, a |-> 255]

BLACK == from_rgb(0, 0, 0)

Min2(a, b) == IF a <= b THEN a ELSE b

Max2(a, b) == IF a >= b THEN a ELSE b

Abs(a) == IF a >= 0 THEN a ELSE -a

RectFromMinSize(pmin, w, h) ==
    [min |-> pmin, max |-> Pos2(pmin.x + w, pmin.y + h)]

RectFromTwoPos(p, q) ==
    [min |-> Pos2(Min2(p.x, q.x), Min2(p.y, q.y)),
     max |-> Pos2(Max2(p.x, q.x), Max2(p.y, q.y))]

RectIntersects(r, s) ==
    /\ r.min.x <= s.max.x
    /\ s.min.x <= r.max.x
    /\ r.min.y <= s.max.y
    /\ s.min.y <= r.max.y

RectContains(r, p) ==
    /\ r.min.x <= p.x
    /\ p.x <= r.max.x
    /\ r.min.y <= p.y
    /\ p.y <= r.max.y

----------------------------------------------------------------------------
(* Strings *)

NL == "NL"

\* str::to_lowercase on the characters of the model
LowerChar(c) == IF c = "A" THEN "a" ELSE IF c = "B" THEN "b" ELSE c

to_lowercase(s) == [i \in 1..Len(s) |-> LowerChar(s[i])]

\* str::contains: needle occurs in hay as a contiguous substring
contains(hay, needle) ==
    \E k \in 0..(Len(hay) - Len(needle)) :
        \A i \in 1..Len(needle) : hay[k + i] = needle[i]

\* the pieces of s between line feeds
RECURSIVE SplitNL(_, _)
SplitNL(s, cur) ==
    IF s = << >> THEN << cur >>
    ELSE IF Head(s) = NL THEN << cur >> \o SplitNL(Tail(s), << >>)
    ELSE SplitNL(Tail(s), Append(cur, Head(s)))

\* str::lines: a final empty piece is not a line
lines(s) ==
    LET pieces == SplitNL(s, << >>)
    IN  IF pieces[Len(pieces)] = << >>
        THEN SubSeq(pieces, 1, Len(pieces) - 1)
        ELSE pieces

\* line.trim().is_empty()
trim_is_empty(line) == \A i \in 1..Len(line) : line[i] = " "

----------------------------------------------------------------------------
(* Estimated text geometry, as every user of it in the code computes it *)

\* font_size * 1.2
line_height(font_size) == (font_size * 12) \div 10

\* line.len() as f32 * font_size * 0.6
estimated_text_width(line, font_size) == (Len(line) * font_size * 6) \div 10

\* the rectangle of line line_idx (0-based) of text element t
text_rect(t, line_idx) ==
    LET line == lines(t.text)[line_idx + 1]
        line_y == t.position.y + line_idx * line_height(t.font_size)
    IN  RectFromMinSize(Pos2(t.position.x, line_y),
                        estimated_text_width(line, t.font_size), t.font_size)

\* the 0-based indices of the non-blank lines of t
NonBlankLines(t) ==
    {li \in 0..(Len(lines(t.text)) - 1) : ~trim_is_empty(lines(t.text)[li + 1])}

\* the strictly increasing sequence of the elements of a finite set of numbers
RECURSIVE SortedSeq(_)
SortedSeq(S) ==
    IF S = {} THEN << >>
    ELSE LET m == CHOOSE a \in S : \A b \in S : a <= b
         IN  << m >> \o SortedSeq(S \ {m})

SeqToSet(s) == {s[i] : i \in 1..Len(s)}

\* Vec::contains
VecContains(v, e) == \E i \in 1..Len(v) : v[i] = e

----------------------------------------------------------------------------
(* The state *)

VARIABLES
    \* ScribbleApp
    pages,                  \* Vec<Page>
    current_page_index,     \* usize
    is_notebook_mode,       \* bool
    current_stroke,         \* Vec<Pos2>
    is_drawing,             \* bool
    search_query,           \* String
    search_results,         \* Vec<usize>
    regex_mode,             \* bool
    search_error,           \* Option<String>
    is_selecting_text,      \* bool
    selection_start,        \* Option<Pos2>
    selection_end,          \* Option<Pos2>
    selected_text_elements, \* Vec<usize>
    \* the environment and the caller's view of the last call
    disk,                   \* Option<json>: the file at the path used, if readable
    last_op,                \* the operation that ran last
    last_result,            \* what it returned
    \* history
    saved,                  \* Option: pages, index and mode when disk was written by save_project
    \* the pointer on the canvas
    dragging,               \* bool: a drag is in progress
    pointer_pos,            \* Option<Pos2>: response.interact_pointer_pos() of the last event
    gestures,               \* the number of drags begun
    drag_base,              \* Option: pointer and text elements when the current move began
    gesture_points,         \* the pointer positions given to the Draw tool since the last drag-start
    selection_page,         \* current_page_index when update_text_selection last ran
    \* draw_pointing_arrows: what the last call drew
    painter,                \* the line segments drawn, in half pixels
    arrow_drawn,            \* bool: a candidate position was free of collisions
    arrow_at,               \* Option: the candidate used (type and position, in half pixels)
    \* draw_line_on_image: the locals of the loop
    x0, y0, x1, y1,         \* the endpoints
    x, y, err,              \* the loop's variables
    plotted,                \* the points drawn so far, in order
    line_pc,                \* "idle", "loop" or "done"
    \* calculate_content_bounds: what the last call returned
    content_bounds,         \* Option<(min_x, min_y, width, height)>
    \* ScribbleApp: the tools and the dialogs
    show_create_notebook_dialog, \* bool
    new_notebook_pages_input,    \* String
    stroke_color,           \* Color32
    stroke_width,           \* f32
    current_tool,           \* Tool: "Draw", "Text" or "Select"
    text_input,             \* String
    text_font_size,         \* f32
    active_text_position    \* Option<Pos2>

appVars ==
    << pages, current_page_index, is_notebook_mode, current_stroke, is_drawing,
       search_query, search_results, regex_mode, search_error, is_selecting_text,
       selection_start, selection_end, selected_text_elements >>

envVars == << disk, last_op, last_result >>

gestureVars == << dragging, pointer_pos, gestures, drag_base, gesture_points >>

histVars == << saved, gestureVars, selection_page >>

arrowVars == << painter, arrow_drawn, arrow_at >>

lineVars == << x0, y0, x1, y1, x, y, err, plotted, line_pc >>

routineVars == << arrowVars, lineVars, content_bounds >>

dialogVars == << show_create_notebook_dialog, new_notebook_pages_input >>

penVars == << stroke_color, stroke_width >>

textVars == << text_input, text_font_size, active_text_position >>

uiVars == << dialogVars, penVars, current_tool, textVars >>

vars == << appVars, envVars, histVars, routineVars, uiVars >>

pageVars == << pages, current_page_index, is_notebook_mode >>

strokeVars == << current_stroke, is_drawing >>

searchVars == << search_query, search_results, regex_mode, search_error >>

selectVars ==
    << is_selecting_text, selection_start, selection_end, selected_text_elements >>

\* Page { strokes, text_elements, name }
Page(strokes, text_elements, name) ==
    [strokes |-> strokes, text_elements |-> text_elements, name |-> name]

current_page == pages[current_page_index + 1]

current_strokes == current_page.strokes

current_text_elements == current_page.text_elements

\* "Page k"
PageName(k) == << "Page ", k >>

----------------------------------------------------------------------------
(* File operations: save_project, load_project, load_project_from_path *)

\* Pos2 -> (f32, f32) and back
PosToTuple(pos) == << pos.x, pos.y >>

TupleToPos(t) == Pos2(t[1], t[2])

\* Stroke -> SerializableStroke: the colour keeps r, g, b only
SerializeStrokeRed(s) ==
    [points |-> [i \in 1..Len(s.points) |-> PosToTuple(s.points[i])],
     color |-> << s.color.r, s.color.r, s.color.r >>,
     width |-> s.width]

SerializeStroke(s) ==
    [points |-> [i \in 1..Len(s.points) |-> PosToTuple(s.points[i])],
     color |-> << s.color.r, s.color.g, s.color.b >>,
     width |-> s.width]

\* SerializableStroke -> Stroke
DeserializeStroke(s) ==
    [points |-> [i \in 1..Len(s.points) |-> TupleToPos(s.points[i])],
     color |-> from_rgb(s.color[1], s.color[2], s.color[3]),
     width |-> s.width]

\* TextElement -> SerializableTextElement and back
SerializeText(t) ==
    [position |-> PosToTuple(t.position), text |-> t.text, font_size |-> t.font_size]

DeserializeTextTransposed(t) ==
    [position |-> Pos2(t.position[2], t.position[1]), text |-> t.text,
     font_size |-> t.font_size]

DeserializeText(t) ==
    [position |-> TupleToPos(t.position), text |-> t.text, font_size |-> t.font_size]

\* Page -> SerializablePage and back
SerializePage(p) ==
    [name |-> p.name,
     strokes |-> [i \in 1..Len(p.strokes) |-> SerializeStroke(p.strokes[i])],
     text_elements |->
        [i \in 1..Len(p.text_elements) |-> SerializeText(p.text_elements[i])]]

DeserializePage(p) ==
    [name |-> p.name,
     strokes |-> [i \in 1..Len(p.strokes) |-> DeserializeStroke(p.strokes[i])],
     text_elements |->
        [i \in 1..Len(p.text_elements) |-> DeserializeText(p.text_elements[i])]]

\* the ScribbleNotebook written in notebook mode
NotebookJson ==
    [pages |-> [i \in 1..Len(pages) |-> SerializePage(pages[i])],
     current_page_index |-> current_page_index,
     canvas_size |-> << 800, 600 >>]

\* the ScribbleProject written in single page mode: the current page, unnamed
ProjectJson ==
    [strokes |->
        [i \in 1..Len(current_strokes) |-> SerializeStroke(current_strokes[i])],
     text_elements |->
        [i \in 1..Len(current_text_elements) |->
            SerializeText(current_text_elements[i])],
     canvas_size |-> << 800, 600 >>]

\* serde_json::from_str::<ScribbleNotebook>: every field of the struct is
\* required, fields the struct does not have are ignored
ParsesAsNotebook(json) ==
    {"pages", "current_page_index", "canvas_size"} \subseteq DOMAIN json

\* serde_json::from_str::<ScribbleProject>
ParsesAsProject(json) ==
    {"strokes", "text_elements", "canvas_size"} \subseteq DOMAIN json

\* usize::saturating_sub(1)
saturating_sub_1(n) == IF n = 0 THEN 0 ELSE n - 1

\* notebook.current_page_index.min(self.pages.len().saturating_sub(1))
LoadedIndex(stored, len) == Min2(stored, saturating_sub_1(len))

\* the state both load functions clear before loading
ResetTransient ==
    /\ current_stroke' = << >>
    /\ is_drawing' = FALSE
    /\ selected_text_elements' = << >>
    /\ is_selecting_text' = FALSE
    /\ selection_start' = None
    /\ selection_end' = None
    /\ search_results' = << >>
    /\ search_query' = << >>
    /\ UNCHANGED << regex_mode, search_error >>

\* neither parse succeeded: return Err("Invalid file format")
InvalidFormatAfterClear ==
    /\ last_result' = "Err: Invalid file format"
    /\ ResetTransient
    /\ UNCHANGED pageVars

InvalidFormat ==
    /\ last_result' = "Err: Invalid file format"
    /\ UNCHANGED appVars

\* the body shared by load_project and load_project_from_path, for the file
\* content `file` (None: fs::read_to_string fails)
LoadBody(file) ==
    IF file = None
    THEN /\ last_result' = "Err: io"
         /\ UNCHANGED appVars
    ELSE LET json == Unwrap(file)
         IN  IF ParsesAsNotebook(json)
             THEN /\ ResetTransient
                  /\ pages' = [i \in 1..Len(json.pages) |-> DeserializePage(json.pages[i])]
                  /\ current_page_index' =
                        LoadedIndex(json.current_page_index, Len(json.pages))
                  /\ is_notebook_mode' = TRUE
                  /\ last_result' = "Ok"
             ELSE IF ParsesAsProject(json)
             THEN /\ ResetTransient
                  /\ pages' =
                        << Page([i \in 1..Len(json.strokes) |->
                                    DeserializeStroke(json.strokes[i])],
                                [i \in 1..Len(json.text_elements) |->
                                    DeserializeText(json.text_elements[i])],
                                << "Imported Page" >>) >>
                  /\ current_page_index' = 0
                  /\ is_notebook_mode' = FALSE
                  /\ last_result' = "Ok"
             ELSE InvalidFormat

\* save_project with a path chosen in the dialog
save_project ==
    /\ disk' = Some(IF is_notebook_mode THEN NotebookJson ELSE ProjectJson)
    /\ saved' = Some([pages |-> pages, current_page_index |-> current_page_index,
                      is_notebook_mode |-> is_notebook_mode])
    /\ last_op' = "save_project"
    /\ last_result' = "Ok"
    /\ UNCHANGED << appVars, gestureVars, selection_page, routineVars, uiVars >>

\* load_project with the file chosen in the dialog
load_project ==
    /\ LoadBody(disk)
    /\ last_op' = "load_project"
    /\ UNCHANGED << disk, histVars, routineVars, uiVars >>

\* a dropped .scribble file: load_project_from_path
load_project_from_path ==
    /\ LoadBody(disk)
    /\ last_op' = "load_project_from_path"
    /\ UNCHANGED << disk, histVars, routineVars, uiVars >>

----------------------------------------------------------------------------
(* Notebook navigation *)

\* add_new_page that also shows the new page
add_new_page_and_show ==
    /\ is_notebook_mode
    /\ Len(pages) < MaxPages
    /\ pages' = Append(pages, Page(<< >>, << >>, PageName(Len(pages) + 1)))
    /\ current_page_index' = Len(pages)
    /\ last_op' = "add_new_page"
    /\ last_result' = "Ok"
    /\ UNCHANGED << is_notebook_mode, strokeVars, searchVars,
                    selectVars, disk, histVars, routineVars, uiVars >>

\* add_new_page (the button is shown in notebook mode only)
add_new_page ==
    /\ is_notebook_mode
    /\ Len(pages) < MaxPages
    /\ pages' = Append(pages, Page(<< >>, << >>, PageName(Len(pages) + 1)))
    /\ last_op' = "add_new_page"
    /\ last_result' = "Ok"
    /\ UNCHANGED << current_page_index, is_notebook_mode, strokeVars, searchVars,
                    selectVars, disk, histVars, routineVars, uiVars >>

\* next_page; pages.len() - 1 is a usize: on an empty list a build with
\* overflow checks panics at the subtraction, a build without them wraps to
\* usize::MAX and the index is increased
next_page ==
    /\ is_notebook_mode
    /\ IF Len(pages) = 0
       THEN \/ /\ current_page_index < MaxPages
               /\ current_page_index' = current_page_index + 1
               /\ last_result' = "Ok"
            \/ /\ UNCHANGED current_page_index
               /\ last_result' = "panic"
       ELSE /\ current_page_index' =
                  IF current_page_index < Len(pages) - 1
                  THEN current_page_index + 1
                  ELSE current_page_index
            /\ last_result' = "Ok"
    /\ last_op' = "next_page"
    /\ UNCHANGED << pages, is_notebook_mode, strokeVars, searchVars, selectVars,
                    disk, histVars, routineVars, uiVars >>

\* previous_page
previous_page ==
    /\ is_notebook_mode
    /\ current_page_index' =
          IF current_page_index > 0 THEN current_page_index - 1 ELSE current_page_index
    /\ last_op' = "previous_page"
    /\ last_result' = "Ok"
    /\ UNCHANGED << pages, is_notebook_mode, strokeVars, searchVars, selectVars,
                    disk, histVars, routineVars, uiVars >>

----------------------------------------------------------------------------
(* Search: perform_search *)

\* Regex::new on the patterns of the model: literals, "." and "("; a "(" is
\* never closed, which the regex crate rejects
RegexValid(pattern) == \A i \in 1..Len(pattern) : pattern[i] # "("

\* one pattern character against one text character: "." is any character but
\* the line feed, a literal is itself
RegexCharMatches(pc, c) == IF pc = "." THEN c # NL ELSE pc = c

\* Regex::is_match: the pattern matches somewhere in the text
is_match(pattern, text) ==
    \E k \in 0..(Len(text) - Len(pattern)) :
        \A i \in 1..Len(pattern) : RegexCharMatches(pattern[i], text[k + i])

\* the loop of the plain branch, from element `index` on
RECURSIVE PlainLoopCaseSensitive(_, _, _, _)
PlainLoopCaseSensitive(text_elements, query_lower, index, results) ==
    IF index >= Len(text_elements) THEN results
    ELSE PlainLoopCaseSensitive(text_elements, query_lower, index + 1,
            IF contains(text_elements[index + 1].text, query_lower)
            THEN Append(results, index)
            ELSE results)

RECURSIVE PlainLoop(_, _, _, _)
PlainLoop(text_elements, query_lower, index, results) ==
    IF index >= Len(text_elements) THEN results
    ELSE PlainLoop(text_elements, query_lower, index + 1,
            IF contains(to_lowercase(text_elements[index + 1].text), query_lower)
            THEN Append(results, index)
            ELSE results)

\* the loop of the regex branch, from element `index` on
RECURSIVE RegexLoop(_, _, _, _)
RegexLoop(text_elements, regex, index, results) ==
    IF index >= Len(text_elements) THEN results
    ELSE RegexLoop(text_elements, regex, index + 1,
            IF is_match(regex, text_elements[index + 1].text)
            THEN Append(results, index)
            ELSE results)

\* self.search_results.clear(), the first statement of perform_search
clear_results_kept(old_results) == old_results

clear_results(old_results) == << >>

\* perform_search, on the query and mode of the state after the edit
perform_search(query) ==
    LET cleared == clear_results(search_results)
    IN  IF query = << >>
        THEN /\ search_results' = cleared
             /\ search_error' = None
        ELSE IF regex_mode
        THEN IF RegexValid(query)
             THEN /\ search_results' = RegexLoop(current_text_elements, query, 0, cleared)
                  /\ search_error' = None
             ELSE /\ search_results' = cleared
                  /\ search_error' = Some("Regex error")
        ELSE /\ search_results' =
                  PlainLoop(current_text_elements, to_lowercase(query), 0, cleared)
             /\ search_error' = None

\* the search bar: the query was edited to q, so perform_search runs
SearchEdit(q) ==
    /\ search_query' = q
    /\ perform_search(q)
    /\ last_op' = "perform_search"
    /\ last_result' = "Ok"
    /\ UNCHANGED << pageVars, strokeVars, regex_mode, selectVars, disk, histVars, routineVars, uiVars >>

\* the Regex checkbox: the mode flips, nothing is searched again
ToggleRegex ==
    /\ regex_mode' = ~regex_mode
    /\ last_op' = "toggle_regex"
    /\ last_result' = "Ok"
    /\ UNCHANGED << pageVars, strokeVars, search_query, search_results, search_error,
                    selectVars, disk, histVars, routineVars, uiVars >>

\* the Clear Search button
ClearSearch ==
    /\ search_query' = << >>
    /\ search_results' = << >>
    /\ search_error' = None
    /\ last_op' = "clear_search"
    /\ last_result' = "Ok"
    /\ UNCHANGED << pageVars, strokeVars, regex_mode, selectVars, disk, histVars, routineVars, uiVars >>

----------------------------------------------------------------------------
(* Text selection and dragging: the Select tool *)

\* whether some non-blank line of t has its rectangle meet the rectangle r
TextMeetsRect(t, r) ==
    \E li \in NonBlankLines(t) : RectIntersects(r, text_rect(t, li))

\* the loop of update_text_selection over the text elements, from idx on
RECURSIVE SelectionLoopFirstLine(_, _, _, _)
SelectionLoopFirstLine(text_elements, selection_rect, idx, selected) ==
    IF idx >= Len(text_elements) THEN selected
    ELSE SelectionLoopFirstLine(text_elements, selection_rect, idx + 1,
            IF /\ 0 \in NonBlankLines(text_elements[idx + 1])
               /\ RectIntersects(selection_rect, text_rect(text_elements[idx + 1], 0))
               /\ ~VecContains(selected, idx)
            THEN Append(selected, idx)
            ELSE selected)

RECURSIVE SelectionLoop(_, _, _, _)
SelectionLoop(text_elements, selection_rect, idx, selected) ==
    IF idx >= Len(text_elements) THEN selected
    ELSE SelectionLoop(text_elements, selection_rect, idx + 1,
            IF /\ TextMeetsRect(text_elements[idx + 1], selection_rect)
               /\ ~VecContains(selected, idx)
            THEN Append(selected, idx)
            ELSE selected)

\* update_text_selection, for the selection points start and end
update_text_selection(start, end) ==
    selected_text_elements' =
        IF IsSome(start) /\ IsSome(end)
        THEN SelectionLoop(current_text_elements,
                           RectFromTwoPos(Unwrap(start), Unwrap(end)), 0, << >>)
        ELSE << >>

\* get_text_element_at_position: the first element with a non-blank line
\* whose rectangle contains pos
get_text_element_at_position(pos) ==
    LET hits == {idx \in 0..(Len(current_text_elements) - 1) :
                    \E li \in NonBlankLines(current_text_elements[idx + 1]) :
                        RectContains(text_rect(current_text_elements[idx + 1], li), pos)}
    IN  IF hits = {} THEN None
        ELSE Some(CHOOSE idx \in hits : \A other \in hits : idx <= other)

\* the offset drag_selected_text applies: current_pos - start_pos
drag_offset_zero(current_pos, start_pos) == [x |-> 0, y |-> 0]

drag_offset(current_pos, start_pos) == PosSub(current_pos, start_pos)

\* the loop of drag_selected_text over the selected indices, from k on
RECURSIVE DragLoop(_, _, _, _)
DragLoop(text_elements, selected_indices, offset, k) ==
    IF k > Len(selected_indices) THEN text_elements
    ELSE LET text_idx == selected_indices[k]
         IN  DragLoop(
                IF text_idx < Len(text_elements)
                THEN [text_elements EXCEPT ![text_idx + 1].position =
                        PosAdd(text_elements[text_idx + 1].position, offset)]
                ELSE text_elements,
                selected_indices, offset, k + 1)

\* drag_selected_text
drag_selected_text(current_pos) ==
    IF IsSome(selection_start)
    THEN /\ pages' = [pages EXCEPT ![current_page_index + 1].text_elements =
                        DragLoop(current_text_elements, selected_text_elements,
                                 drag_offset(current_pos, Unwrap(selection_start)), 1)]
         /\ selection_start' = Some(current_pos)
    ELSE UNCHANGED << pages, selection_start >>


\* the canvas positions the pointer takes: inside "ab" of T1, the corner of
\* its rectangle, the blank line of T2, its second line, inside T3
PointerPositions ==
    { Pos2(5, 5), Pos2(12, 10), Pos2(22, 5), Pos2(22, 15), Pos2(40, 40) }

\* Select tool, response.drag_started() that starts a new selection whatever
\* the pointer is on
SelectDragStartedAlwaysSelects(p) ==
    /\ current_tool = "Select"
    /\ ~dragging
    /\ gestures < MaxGestures
    /\ is_selecting_text' = TRUE
    /\ selection_start' = Some(p)
    /\ selection_end' = Some(p)
    /\ selected_text_elements' = << >>
    /\ drag_base' = None
    /\ dragging' = TRUE
    /\ pointer_pos' = Some(p)
    /\ gestures' = gestures + 1
    /\ last_op' = "drag_started"
    /\ last_result' = "Ok"
    /\ UNCHANGED << pageVars, strokeVars, searchVars, disk, saved, gesture_points,
                    selection_page, routineVars, uiVars >>

\* Select tool, response.drag_started() at pointer position p
SelectDragStarted(p) ==
    /\ current_tool = "Select"
    /\ ~dragging
    /\ gestures < MaxGestures
    /\ LET clicked_element == get_text_element_at_position(p)
           on_selected == /\ IsSome(clicked_element)
                          /\ VecContains(selected_text_elements, Unwrap(clicked_element))
       IN  IF on_selected
           THEN /\ selection_start' = Some(p)
                /\ is_selecting_text' = FALSE
                /\ UNCHANGED << selection_end, selected_text_elements >>
                /\ drag_base' = Some([start |-> p, text_elements |-> current_text_elements])
           ELSE /\ is_selecting_text' = TRUE
                /\ selection_start' = Some(p)
                /\ selection_end' = Some(p)
                /\ selected_text_elements' = << >>
                /\ drag_base' = None
    /\ dragging' = TRUE
    /\ pointer_pos' = Some(p)
    /\ gestures' = gestures + 1
    /\ last_op' = "drag_started"
    /\ last_result' = "Ok"
    /\ UNCHANGED << pageVars, strokeVars, searchVars, disk, saved, gesture_points,
                    selection_page, routineVars, uiVars >>

\* Select tool, response.dragged() at pointer position p
SelectDragged(p) ==
    /\ current_tool = "Select"
    /\ dragging
    /\ pointer_pos' = Some(p)
    /\ IF is_selecting_text
       THEN /\ selection_end' = Some(p)
            /\ update_text_selection(selection_start, Some(p))
            /\ selection_page' = Some(current_page_index)
            /\ last_op' = "update_text_selection"
            /\ UNCHANGED << pages, selection_start >>
       ELSE IF selected_text_elements # << >>
       THEN /\ drag_selected_text(p)
            /\ last_op' = "drag_selected_text"
            /\ UNCHANGED << selection_end, selected_text_elements, selection_page >>
       ELSE /\ last_op' = "dragged"
            /\ UNCHANGED << pages, selection_start, selection_end,
                            selected_text_elements, selection_page >>
    /\ last_result' = "Ok"
    /\ UNCHANGED << current_page_index, is_notebook_mode, strokeVars, searchVars,
                    is_selecting_text, disk, saved, dragging, gestures, drag_base,
                    gesture_points, routineVars, uiVars >>

\* Select tool, response.drag_stopped()
SelectDragStopped ==
    /\ current_tool = "Select"
    /\ dragging
    /\ dragging' = FALSE
    /\ IF is_selecting_text
       THEN /\ is_selecting_text' = FALSE
            /\ update_text_selection(selection_start, selection_end)
            /\ selection_page' = Some(current_page_index)
            /\ last_op' = "update_text_selection"
       ELSE /\ last_op' = "drag_stopped"
            /\ UNCHANGED << is_selecting_text, selected_text_elements, selection_page >>
    /\ drag_base' = None
    /\ last_result' = "Ok"
    /\ UNCHANGED << pageVars, strokeVars, searchVars, selection_start, selection_end,
                    disk, saved, pointer_pos, gestures, gesture_points, routineVars,
                    uiVars >>

\* Select tool, response.clicked() at pointer position p: a click in empty
\* space clears the selection
SelectClicked(p) ==
    /\ current_tool = "Select"
    /\ ~dragging
    /\ pointer_pos' = Some(p)
    /\ selected_text_elements' =
          IF get_text_element_at_position(p) = None
          THEN << >>
          ELSE selected_text_elements
    /\ last_op' = "clicked"
    /\ last_result' = "Ok"
    /\ UNCHANGED << pageVars, strokeVars, searchVars, is_selecting_text,
                    selection_start, selection_end, disk, saved, dragging, gestures,
                    drag_base, gesture_points, selection_page, routineVars, uiVars >>

----------------------------------------------------------------------------
(* The content the specifications start from *)

TextElement(position, text, font_size) ==
    [position |-> position, text |-> text, font_size |-> font_size]

Stroke(points, color, width) == [points |-> points, color |-> color, width |-> width]

\* "ab" at the origin
T1 == TextElement(Pos2(0, 0), << "a", "b" >>, 10)
\* a blank first line, "A" on the second
T2 == TextElement(Pos2(20, 0), << " ", NL, "A" >>, 10)
\* "Ba" and a final line feed
T3 == TextElement(Pos2(30, 30), << "B", "a", NL >>, 20)
\* blank text, as a loaded file may hold
T4 == TextElement(Pos2(0, 0), << " " >>, 10)

S1 == Stroke(<< Pos2(1, 2), Pos2(3, 4) >>, from_rgb(200, 80, 0), 2)

S2 == Stroke(<< Pos2(5, 5), Pos2(6, 7), Pos2(8, 8) >>, BLACK, 10)

TextLists == { << T1, T2 >>, << T2, T3, T1 >>, << T4, T1 >> }

\* strokes and text elements of a page
Contents ==
    { [strokes |-> << >>, text_elements |-> << >>],
      [strokes |-> << S1 >>, text_elements |-> << T1 >>],
      [strokes |-> << S2, S1 >>, text_elements |-> << T2, T3, T1 >>] }

\* the transient state of ScribbleApp::default
TransientDefault ==
    /\ current_stroke = << >>
    /\ is_drawing = FALSE
    /\ search_query = << >>
    /\ search_results = << >>
    /\ regex_mode = FALSE
    /\ search_error = None
    /\ is_selecting_text = FALSE
    /\ selection_start = None
    /\ selection_end = None
    /\ selected_text_elements = << >>

\* the transient state after a rubber-band selection, a search for "a" and the
\* first point of a stroke
TransientBusy ==
    /\ current_stroke = << Pos2(1, 1) >>
    /\ is_drawing = TRUE
    /\ search_query = << "a" >>
    /\ search_results = PlainLoop(current_text_elements, << "a" >>, 0, << >>)
    /\ regex_mode = FALSE
    /\ search_error = None
    /\ is_selecting_text = FALSE
    /\ selection_start = Some(Pos2(0, 0))
    /\ selection_end = Some(Pos2(40, 40))
    /\ selected_text_elements =
          SelectionLoop(current_text_elements,
                        RectFromTwoPos(Pos2(0, 0), Pos2(40, 40)), 0, << >>)

EnvDefault ==
    /\ disk = None
    /\ last_op = "init"
    /\ last_result = "Ok"
    /\ saved = None
    /\ dragging = FALSE
    /\ pointer_pos = None
    /\ gestures = 0
    /\ drag_base = None
    /\ gesture_points = << >>
    /\ selection_page =
          IF selected_text_elements = << >> THEN None ELSE Some(current_page_index)

\* no drawing or export routine has run
RoutinesIdle ==
    /\ painter = << >>
    /\ arrow_drawn = FALSE
    /\ arrow_at = None
    /\ x0 = 0 /\ y0 = 0 /\ x1 = 0 /\ y1 = 0
    /\ x = 0 /\ y = 0 /\ err = 0
    /\ plotted = << >>
    /\ line_pc = "idle"
    /\ content_bounds = None

\* the tools and the dialogs of ScribbleApp::default
UiDefault ==
    /\ show_create_notebook_dialog = FALSE
    /\ new_notebook_pages_input = << "5" >>
    /\ stroke_color = BLACK
    /\ stroke_width = 2
    /\ current_tool = "Draw"
    /\ text_input = << >>
    /\ text_font_size = 20
    /\ active_text_position = None

\* the same with the Select tool chosen
UiSelectTool ==
    /\ show_create_notebook_dialog = FALSE
    /\ new_notebook_pages_input = << "5" >>
    /\ stroke_color = BLACK
    /\ stroke_width = 2
    /\ current_tool = "Select"
    /\ text_input = << >>
    /\ text_font_size = 20
    /\ active_text_position = None

\* the pages of ScribbleApp::default
AppDefault ==
    /\ pages = << Page(<< >>, << >>, PageName(1)) >>
    /\ current_page_index = 0
    /\ is_notebook_mode = FALSE

\* a single page, as after ScribbleApp::default or the load of a project file
SinglePageStates ==
    /\ is_notebook_mode = FALSE
    /\ current_page_index = 0
    /\ \E c \in Contents, name \in { PageName(1), << "Imported Page" >> } :
          pages = << Page(c.strokes, c.text_elements, name) >>

\* a notebook of one or two pages
NotebookStates ==
    /\ is_notebook_mode = TRUE
    /\ \/ \E c \in Contents : pages = << Page(c.strokes, c.text_elements, PageName(1)) >>
       \/ \E c \in Contents, d \in Contents :
             pages = << Page(c.strokes, c.text_elements, PageName(1)),
                        Page(d.strokes, d.text_elements, PageName(2)) >>
    /\ current_page_index \in 0..(Len(pages) - 1)

----------------------------------------------------------------------------
(* SpecFile: saving, loading and turning pages *)

\* files not written by this program (the json of each)
ForeignFiles ==
    { \* not a project at all
      [garbage |-> TRUE],
      \* a notebook without its current_page_index
      [pages |-> << >>, canvas_size |-> << 800, 600 >>],
      \* a notebook whose stored index is out of range
      [pages |-> << SerializePage(Page(<< >>, << T3 >>, << "Notes" >>)),
                    SerializePage(Page(<< S1 >>, << >>, << "More" >>)) >>,
       current_page_index |-> 5,
       canvas_size |-> << 800, 600 >>],
      \* a single page project
      [strokes |-> << SerializeStroke(S2) >>,
       text_elements |-> << SerializeText(T1) >>,
       canvas_size |-> << 800, 600 >>] }

\* the file at the path becomes another program's file, or unreadable
OtherFile ==
    /\ \E f \in { None } \cup { Some(j) : j \in ForeignFiles } :
          /\ f # disk
          /\ disk' = f
    /\ saved' = None
    /\ last_op' = "other_file"
    /\ last_result' = "Ok"
    /\ UNCHANGED << appVars, gestureVars, selection_page, routineVars, uiVars >>

InitFile ==
    /\ SinglePageStates \/ NotebookStates
    /\ TransientDefault \/ TransientBusy
    /\ EnvDefault
    /\ RoutinesIdle
    /\ UiDefault

NextFile ==
    \/ save_project
    \/ load_project
    \/ load_project_from_path
    \/ OtherFile
    \/ add_new_page
    \/ next_page
    \/ previous_page

SpecFile == InitFile /\ [][NextFile]_vars

----------------------------------------------------------------------------
(* Claims about the file operations, under SpecFile *)

LoadRan == last_op \in { "load_project", "load_project_from_path" }

\* the same RGB colour
SameRgb(c, d) == c.r = d.r /\ c.g = d.g /\ c.b = d.b

\* the same strokes: points, RGB colour and width, in the same order
SameStrokes(ss, tt) ==
    /\ Len(ss) = Len(tt)
    /\ \A i \in 1..Len(ss) :
          /\ ss[i].points = tt[i].points
          /\ SameRgb(ss[i].color, tt[i].color)
          /\ ss[i].width = tt[i].width

\* the same text elements: position, text and font size, in the same order
SameTexts(ts, us) ==
    /\ Len(ts) = Len(us)
    /\ \A i \in 1..Len(ts) :
          /\ ts[i].position = us[i].position
          /\ ts[i].text = us[i].text
          /\ ts[i].font_size = us[i].font_size

\* C1: a file saved by save_project in notebook mode, when loaded, gives the
\* pages that were saved (names, strokes with points, RGB colour and width,
\* text elements with position, text and font size, all in order), the saved
\* current_page_index, and is_notebook_mode = TRUE.
C1_NotebookRoundTrip ==
    (LoadRan /\ IsSome(saved) /\ Unwrap(saved).is_notebook_mode) =>
        LET was == Unwrap(saved)
        IN  /\ last_result = "Ok"
            /\ Len(pages) = Len(was.pages)
            /\ \A i \in 1..Len(pages) :
                  /\ pages[i].name = was.pages[i].name
                  /\ SameStrokes(pages[i].strokes, was.pages[i].strokes)
                  /\ SameTexts(pages[i].text_elements, was.pages[i].text_elements)
            /\ current_page_index = was.current_page_index
            /\ is_notebook_mode = TRUE

\* a notebook of two pages with strokes and text, saved on its second page,
\* has been loaded
C1_Witness ==
    /\ LoadRan
    /\ IsSome(saved)
    /\ Unwrap(saved).is_notebook_mode
    /\ Len(Unwrap(saved).pages) = 2
    /\ Unwrap(saved).current_page_index = 1
    /\ Len(Unwrap(saved).pages[1].strokes) = 2
    /\ Len(Unwrap(saved).pages[2].text_elements) = 3
    /\ pages = Unwrap(saved).pages

\* C2: a file saved in single page mode, when loaded, gives exactly one page
\* with the strokes and text elements of the page that was saved, named
\* "Imported Page" whatever its name was, current_page_index = 0 and
\* is_notebook_mode = FALSE.
C2_SinglePageRoundTrip ==
    (LoadRan /\ IsSome(saved) /\ ~Unwrap(saved).is_notebook_mode) =>
        LET was == Unwrap(saved)
            was_page == was.pages[was.current_page_index + 1]
        IN  /\ last_result = "Ok"
            /\ Len(pages) = 1
            /\ SameStrokes(pages[1].strokes, was_page.strokes)
            /\ SameTexts(pages[1].text_elements, was_page.text_elements)
            /\ pages[1].name = << "Imported Page" >>
            /\ current_page_index = 0
            /\ is_notebook_mode = FALSE

\* a page named "Page 1" holding strokes and text was saved in single page
\* mode and has been loaded
C2_Witness ==
    /\ LoadRan
    /\ IsSome(saved)
    /\ ~Unwrap(saved).is_notebook_mode
    /\ Unwrap(saved).pages[1].name = PageName(1)
    /\ Len(pages[1].strokes) = 2
    /\ Len(pages[1].text_elements) = 3
    /\ pages[1].name = << "Imported Page" >>

\* C3: a load of a file that cannot be read, or that parses neither as a
\* notebook nor as a project, returns an error ("Invalid file format" in the
\* second case) and leaves every field of the application state as it was.
C3_FailedLoadChangesNothing ==
    [][ (last_op' \in { "load_project", "load_project_from_path" }
            /\ (disk = None \/ (~ParsesAsNotebook(Unwrap(disk))
                                /\ ~ParsesAsProject(Unwrap(disk)))))
        => /\ last_result' = (IF disk = None THEN "Err: io"
                              ELSE "Err: Invalid file format")
           /\ UNCHANGED appVars ]_vars

\* a load has failed with "Invalid file format" in a state with a stroke in
\* progress, a search and a selection
C3_Witness ==
    /\ LoadRan
    /\ last_result = "Err: Invalid file format"
    /\ is_drawing
    /\ current_stroke # << >>
    /\ search_query # << >>
    /\ search_results # << >>
    /\ selected_text_elements # << >>
    /\ Len(pages) = 2

----------------------------------------------------------------------------
(* SpecSearch: the search bar over a notebook of two pages *)

\* the queries typed into the search bar
Queries ==
    { << >>, << "a" >>, << "b" >>, << "B", "a" >>, << "A", "B" >>, << "x" >>,
      << "." >>, << ".", "A" >>, << "(" >>, << "a", "(" >> }

\* a notebook of two pages of text
TwoTextPages ==
    /\ is_notebook_mode = TRUE
    /\ \E a \in TextLists \cup { << >> }, b \in TextLists \cup { << >> } :
          pages = << Page(<< >>, a, PageName(1)), Page(<< S1 >>, b, PageName(2)) >>
    /\ current_page_index \in { 0, 1 }

InitSearch ==
    /\ TwoTextPages
    /\ current_stroke = << >>
    /\ is_drawing = FALSE
    /\ search_query = << >>
    /\ search_results = << >>
    /\ regex_mode \in BOOLEAN
    /\ search_error = None
    /\ is_selecting_text = FALSE
    /\ selection_start = None
    /\ selection_end = None
    /\ selected_text_elements = << >>
    /\ EnvDefault
    /\ RoutinesIdle
    /\ UiDefault

NextSearch ==
    \/ \E q \in Queries : q # search_query /\ SearchEdit(q)
    \/ ToggleRegex
    \/ ClearSearch
    \/ next_page
    \/ previous_page

SpecSearch == InitSearch /\ [][NextSearch]_vars

\* text holds q as a substring when case is ignored
ContainsIgnoreCase(text, q) ==
    \E k \in 0..(Len(text) - Len(q)) :
        \A i \in 1..Len(q) : LowerChar(text[k + i]) = LowerChar(q[i])

\* the 0-based indices of the current page's text elements that satisfy Hit
PlainHits ==
    {i \in 0..(Len(current_text_elements) - 1) :
        ContainsIgnoreCase(current_text_elements[i + 1].text, search_query)}

RegexHits ==
    {i \in 0..(Len(current_text_elements) - 1) :
        is_match(search_query, current_text_elements[i + 1].text)}

\* C4: after perform_search in plain mode with a non-empty query,
\* search_results is the strictly increasing list of the indices of the
\* current page's text elements whose text contains the query when case is
\* ignored, and search_error is None; with an empty query search_results is
\* empty.
C4_PlainSearchResult ==
    (last_op = "perform_search") =>
        /\ (search_query = << >>) => (search_results = << >>)
        /\ (~regex_mode /\ search_query # << >>) =>
              /\ search_results = SortedSeq(PlainHits)
              /\ search_error = None

\* a plain search whose query differs in case from the text it finds, on a
\* page where some elements match and some do not
C4_Witness ==
    /\ last_op = "perform_search"
    /\ ~regex_mode
    /\ search_query = << "b" >>
    /\ Len(current_text_elements) = 3
    /\ search_results = << 1, 2 >>

----------------------------------------------------------------------------
(* SpecSelectionFn: update_text_selection applied to any selection points *)

OptionalPositions == { None } \cup { Some(p) : p \in PointerPositions }

\* update_text_selection called in the current state
ApplyUpdateTextSelection ==
    /\ last_op = "init"
    /\ update_text_selection(selection_start, selection_end)
    /\ selection_page' = Some(current_page_index)
    /\ last_op' = "update_text_selection"
    /\ last_result' = "Ok"
    /\ UNCHANGED << pageVars, strokeVars, searchVars, is_selecting_text,
                    selection_start, selection_end, disk, saved, gestureVars,
                    routineVars, uiVars >>

InitSelectionFn ==
    /\ TwoTextPages
    /\ current_stroke = << >>
    /\ is_drawing = FALSE
    /\ search_query = << >>
    /\ search_results = << >>
    /\ regex_mode = FALSE
    /\ search_error = None
    /\ is_selecting_text \in BOOLEAN
    /\ selection_start \in OptionalPositions
    /\ selection_end \in OptionalPositions
    /\ selected_text_elements \in { << >>, << 0 >>, << 1, 0 >> }
    /\ EnvDefault
    /\ RoutinesIdle
    /\ UiDefault

NextSelectionFn == ApplyUpdateTextSelection

SpecSelectionFn == InitSelectionFn /\ [][NextSelectionFn]_vars

\* the estimated rectangle of line li of t, as the claim words it: origin
\* (x, y + li * 1.2 * font_size), size (0.6 * font_size * length, font_size)
ClaimedLineRect(t, li) ==
    LET len == Len(lines(t.text)[li + 1])
        left == t.position.x
        top == t.position.y + (li * 12 * t.font_size) \div 10
    IN  [left |-> left, top |-> top,
         right |-> left + (6 * t.font_size * len) \div 10,
         bottom |-> top + t.font_size]

\* the rectangle r and the rectangle spanned by the points p and q share a point
MeetsSpan(r, p, q) ==
    ~ \/ r.right < Min2(p.x, q.x)
      \/ r.left > Max2(p.x, q.x)
      \/ r.bottom < Min2(p.y, q.y)
      \/ r.top > Max2(p.y, q.y)

RubberBandHits ==
    {i \in 0..(Len(current_text_elements) - 1) :
        LET t == current_text_elements[i + 1]
        IN  \E li \in 0..(Len(lines(t.text)) - 1) :
               /\ \E k \in 1..Len(lines(t.text)[li + 1]) : lines(t.text)[li + 1][k] # " "
               /\ MeetsSpan(ClaimedLineRect(t, li), Unwrap(selection_start),
                            Unwrap(selection_end))}

\* C6: after update_text_selection with both selection points set,
\* selected_text_elements is the strictly increasing, duplicate-free list of
\* the current page's text elements with a non-blank line whose estimated
\* rectangle meets the rectangle spanned by the two points; with a point unset
\* the selection is empty.
C6_RubberBandSelection ==
    (last_op = "update_text_selection") =>
        IF IsSome(selection_start) /\ IsSome(selection_end)
        THEN selected_text_elements = SortedSeq(RubberBandHits)
        ELSE selected_text_elements = << >>

\* a rubber band over three elements has selected the first one through its
\* second line (its first is blank) and the third, not the second
C6_Witness ==
    /\ last_op = "update_text_selection"
    /\ current_text_elements = << T2, T3, T1 >>
    /\ selection_start = Some(Pos2(5, 5))
    /\ selection_end = Some(Pos2(22, 15))
    /\ selected_text_elements = << 0, 2 >>

\* update_text_selection has run with the end point unset
C6_WitnessUnset ==
    /\ last_op = "update_text_selection"
    /\ IsSome(selection_start)
    /\ selection_end = None
    /\ Len(current_text_elements) = 3

----------------------------------------------------------------------------
(* SpecSelect: the Select tool's gestures over a notebook of two pages *)

InitSelect ==
    /\ TwoTextPages
    /\ TransientDefault
    /\ EnvDefault
    /\ RoutinesIdle
    /\ UiSelectTool

NextSelect ==
    \/ \E p \in PointerPositions : SelectDragStarted(p)
    \/ \E p \in PointerPositions : SelectDragged(p)
    \/ SelectDragStopped
    \/ \E p \in PointerPositions : SelectClicked(p)

SpecSelect == InitSelect /\ [][NextSelect]_vars

\* C7: drag_selected_text(p) with selection_start = s moves every selected
\* text element of the current page by exactly p - s, sets selection_start to
\* p, and leaves alone every unselected text element, every stroke and every
\* other page; so since the move began at p0 every selected element is
\* displaced by exactly p - p0, which keeps their relative positions.
C7_DragMovesSelection ==
    [][ (last_op' = "drag_selected_text" /\ IsSome(selection_start)) =>
          LET p == Unwrap(pointer_pos')
              s == Unwrap(selection_start)
              before == current_text_elements
              after == pages'[current_page_index + 1].text_elements
          IN  /\ Len(after) = Len(before)
              /\ \A i \in 1..Len(before) :
                    /\ after[i].text = before[i].text
                    /\ after[i].font_size = before[i].font_size
                    /\ IF i - 1 \in SeqToSet(selected_text_elements)
                       THEN /\ after[i].position.x = before[i].position.x + (p.x - s.x)
                            /\ after[i].position.y = before[i].position.y + (p.y - s.y)
                       ELSE after[i].position = before[i].position
              /\ selection_start' = Some(p)
              /\ Len(pages') = Len(pages)
              /\ pages'[current_page_index + 1].strokes = current_strokes
              /\ pages'[current_page_index + 1].name = current_page.name
              /\ \A j \in 1..Len(pages) :
                    j # current_page_index + 1 => pages'[j] = pages[j]
              /\ IsSome(drag_base) =>
                    LET p0 == Unwrap(drag_base).start
                        origin == Unwrap(drag_base).text_elements
                    IN  \A i \in 1..Len(after) :
                           i - 1 \in SeqToSet(selected_text_elements) =>
                              /\ after[i].position.x = origin[i].position.x + (p.x - p0.x)
                              /\ after[i].position.y = origin[i].position.y + (p.y - p0.y)
      ]_vars

\* two selected elements have been dragged away from where the move began,
\* on a page that also holds an unselected element
C7_Witness ==
    /\ last_op = "drag_selected_text"
    /\ IsSome(drag_base)
    /\ Unwrap(drag_base).text_elements = << T2, T3, T1 >>
    /\ selected_text_elements = << 0, 2 >>
    /\ pointer_pos = Some(Pos2(22, 15))
    /\ Unwrap(drag_base).start = Pos2(5, 5)
    /\ current_text_elements[1].position = Pos2(37, 10)
    /\ current_text_elements[2] = T3
    /\ current_text_elements[3].position = Pos2(17, 10)

----------------------------------------------------------------------------
(* Search arrows: draw_pointing_arrows and check_arrow_collision_at_position *)
(* Positions and lengths are in half pixels here (twice the code's value),  *)
(* because the tested area has a half-integer extent.                       *)

arrow_length == 15

arrow_gap == 5

collision_padding == 2

head_size == 4

\* a rectangle of the page in half pixels
RectH(r) ==
    [min |-> Pos2(2 * r.min.x, 2 * r.min.y), max |-> Pos2(2 * r.max.x, 2 * r.max.y)]

\* Rect::from_center_size((arrow_x, arrow_y), (len + 2 * padding) squared), for
\* an arrow of len pixels
ArrowArea(arrow_x, arrow_y, len) ==
    [min |-> Pos2(arrow_x - (len + 2 * collision_padding),
                  arrow_y - (len + 2 * collision_padding)),
     max |-> Pos2(arrow_x + (len + 2 * collision_padding),
                  arrow_y + (len + 2 * collision_padding))]

\* the rectangles of the non-blank lines of the text elements that are not
\* search results, in half pixels
OtherTextRects ==
    UNION { { RectH(text_rect(current_text_elements[text_idx + 1], li)) :
                li \in NonBlankLines(current_text_elements[text_idx + 1]) } :
            text_idx \in { i \in 0..(Len(current_text_elements) - 1) :
                              ~VecContains(search_results, i) } }

\* check_arrow_collision_at_position
check_arrow_collision_at_position(arrow_x, arrow_y, len) ==
    \E r \in OtherTextRects : RectIntersects(ArrowArea(arrow_x, arrow_y, len), r)

Segment(a, b) == [a |-> a, b |-> b]

\* draw_bottom_arrow: the shaft from base to tip and the two wings; len2 is
\* the arrow's length in half pixels
draw_bottom_arrow(center_x, arrow_y, len2) ==
    LET arrow_tip == Pos2(center_x, arrow_y)
        arrow_base == Pos2(center_x, arrow_y + len2)
    IN  << Segment(arrow_base, arrow_tip),
           Segment(arrow_tip, Pos2(center_x - 2 * head_size, arrow_y + 2 * head_size)),
           Segment(arrow_tip, Pos2(center_x + 2 * head_size, arrow_y + 2 * head_size)) >>

\* draw_top_arrow
draw_top_arrow(center_x, arrow_y, len2) ==
    LET arrow_tip == Pos2(center_x, arrow_y + len2)
        arrow_base == Pos2(center_x, arrow_y)
    IN  << Segment(arrow_base, arrow_tip),
           Segment(arrow_tip,
                   Pos2(center_x - 2 * head_size, arrow_y + len2 - 2 * head_size)),
           Segment(arrow_tip,
                   Pos2(center_x + 2 * head_size, arrow_y + len2 - 2 * head_size)) >>

\* draw_left_arrow
draw_left_arrow(arrow_x, center_y, len2) ==
    LET arrow_base == Pos2(arrow_x, center_y)
        arrow_tip == Pos2(arrow_x + len2, center_y)
    IN  << Segment(arrow_base, arrow_tip),
           Segment(arrow_tip,
                   Pos2(arrow_x + len2 - 2 * head_size, center_y - 2 * head_size)),
           Segment(arrow_tip,
                   Pos2(arrow_x + len2 - 2 * head_size, center_y + 2 * head_size)) >>

\* draw_right_arrow
draw_right_arrow(arrow_x, center_y, len2) ==
    LET arrow_base == Pos2(arrow_x + len2, center_y)
        arrow_tip == Pos2(arrow_x, center_y)
    IN  << Segment(arrow_base, arrow_tip),
           Segment(arrow_tip, Pos2(arrow_x + 2 * head_size, center_y - 2 * head_size)),
           Segment(arrow_tip, Pos2(arrow_x + 2 * head_size, center_y + 2 * head_size)) >>

\* the candidate positions of draw_pointing_arrows, in the order tried, for a
\* match centred at center_x with its bottom at text_bottom (half pixels) and
\* match_width pixels wide
arrow_positions(center_x, text_bottom, match_width) ==
    LET text_top == text_bottom - 2 * 20
        text_center_y == text_top + 2 * 10
    IN  << [arrow_type |-> "bottom", arrow_x |-> center_x,
            arrow_y |-> text_bottom + 2 * arrow_gap],
           [arrow_type |-> "top", arrow_x |-> center_x,
            arrow_y |-> text_top - 2 * arrow_gap - 2 * arrow_length],
           [arrow_type |-> "left",
            arrow_x |-> center_x - match_width - 2 * arrow_gap - 2 * arrow_length,
            arrow_y |-> text_center_y],
           [arrow_type |-> "right", arrow_x |-> center_x + match_width + 2 * arrow_gap,
            arrow_y |-> text_center_y] >>

\* the arrow drawn at candidate c
DrawCandidate(c) ==
    CASE c.arrow_type = "bottom" -> draw_bottom_arrow(c.arrow_x, c.arrow_y, 2 * arrow_length)
      [] c.arrow_type = "top" -> draw_top_arrow(c.arrow_x, c.arrow_y, 2 * arrow_length)
      [] c.arrow_type = "left" -> draw_left_arrow(c.arrow_x, c.arrow_y, 2 * arrow_length)
      [] c.arrow_type = "right" -> draw_right_arrow(c.arrow_x, c.arrow_y, 2 * arrow_length)

\* draw_pointing_arrows
draw_pointing_arrows(center_x, text_bottom, match_width) ==
    LET candidates == arrow_positions(center_x, text_bottom, match_width)
        free == {k \in 1..4 :
                    ~check_arrow_collision_at_position(
                        candidates[k].arrow_x, candidates[k].arrow_y, arrow_length)}
    IN  IF free # {}
        THEN LET c == candidates[CHOOSE k \in free : \A other \in free : k <= other]
             IN  /\ painter' = DrawCandidate(c)
                 /\ arrow_drawn' = TRUE
                 /\ arrow_at' = Some(c)
        ELSE \* no position is free: the bottom position, with side arrows of
             \* 0.7 of the length for a match wider than 30
             LET bottom_y == text_bottom + 2 * arrow_gap
                 side_offset == (2 * match_width) \div 3
                 side_len == (2 * arrow_length * 7) \div 10
             IN  /\ painter' =
                        draw_bottom_arrow(center_x, bottom_y, 2 * arrow_length)
                        \o (IF match_width > 30
                            THEN draw_bottom_arrow(center_x - side_offset, bottom_y, side_len)
                                 \o draw_bottom_arrow(center_x + side_offset, bottom_y,
                                                      side_len)
                            ELSE << >>)
                 /\ arrow_drawn' = FALSE
                 /\ arrow_at' = None

\* what painter.layout_no_wrap measures: the height of a row of text of the
\* font, the width of the text before the match, the width of the match
GalleyMetrics(font_size) ==
    [row_height : { font_size, line_height(font_size) },
     before_width : { 0, 6 },
     match_width : { 6, 36 }]

\* draw_arrows_for_matches for one match: on line match_line of the search
\* result at index, measured as m
DrawArrowsForMatch(index, match_line, m) ==
    /\ search_query # << >>
    /\ VecContains(search_results, index)
    /\ index < Len(current_text_elements)
    /\ LET t == current_text_elements[index + 1]
       IN  /\ match_line < Len(lines(t.text))
           /\ LET line_y == t.position.y + match_line * m.row_height
                  match_start_x == t.position.x + m.before_width
                  text_bottom == line_y + m.row_height
              IN  draw_pointing_arrows(2 * match_start_x + m.match_width,
                                       2 * text_bottom, m.match_width)
    /\ last_op' = "draw_pointing_arrows"
    /\ last_result' = "Ok"
    /\ UNCHANGED << appVars, disk, histVars, uiVars, lineVars, content_bounds >>

----------------------------------------------------------------------------
(* SpecArrow: searching a page and drawing the arrows of its matches *)

\* "x" below T1, where an arrow under T1 ends
T5 == TextElement(Pos2(0, 28), << "x" >>, 10)
\* large text around T3
T6 == TextElement(Pos2(0, 0), << "x", "x", "x" >>, 50)

ArrowTextLists == { << T1, T5 >>, << T2, T3, T1 >>, << T6, T3 >>, << T5, T2, T1 >> }

ArrowQueries == { << "a" >>, << "b" >>, << "x" >>, << "A", "B" >> }

InitArrow ==
    /\ is_notebook_mode = TRUE
    /\ \E a \in ArrowTextLists, b \in ArrowTextLists :
          pages = << Page(<< >>, a, PageName(1)), Page(<< S1 >>, b, PageName(2)) >>
    /\ current_page_index \in { 0, 1 }
    /\ TransientDefault
    /\ EnvDefault
    /\ RoutinesIdle
    /\ UiDefault

NextArrow ==
    \/ \E q \in ArrowQueries : q # search_query /\ SearchEdit(q)
    \/ \E index \in 0..(Len(current_text_elements) - 1) :
          \E match_line \in 0..(Len(lines(current_text_elements[index + 1].text)) - 1) :
             \E m \in GalleyMetrics(current_text_elements[index + 1].font_size) :
                DrawArrowsForMatch(index, match_line, m)

SpecArrow == InitArrow /\ [][NextArrow]_vars

Sign(a) == IF a > 0 THEN 1 ELSE IF a < 0 THEN -1 ELSE 0

\* the values of k for which lo <= a + k * d <= hi, as an interval [from, to]
\* (empty when from > to), for a direction d of -1, 0 or 1 and k in 0 .. n
StepsWithin(a, d, lo, hi, n) ==
    CASE d = 0 -> IF lo <= a /\ a <= hi THEN << 0, n >> ELSE << 1, 0 >>
      [] d = 1 -> << lo - a, hi - a >>
      [] d = -1 -> << a - hi, a - lo >>

\* a horizontal, vertical or diagonal segment and a rectangle share a point
SegmentMeetsRect(seg, r) ==
    LET n == Max2(Abs(seg.b.x - seg.a.x), Abs(seg.b.y - seg.a.y))
        kx == StepsWithin(seg.a.x, Sign(seg.b.x - seg.a.x), r.min.x, r.max.x, n)
        ky == StepsWithin(seg.a.y, Sign(seg.b.y - seg.a.y), r.min.y, r.max.y, n)
    IN  Max2(0, Max2(kx[1], ky[1])) <= Min2(n, Min2(kx[2], ky[2]))

PainterSegments == { painter[i] : i \in 1..Len(painter) }

\* C8: an arrow that draw_pointing_arrows places at a candidate position
\* reported free by check_arrow_collision_at_position (its shaft of length 15
\* and its two wings) meets the estimated rectangle of no non-blank line of a
\* text element that is not a search result.
C8_ArrowsClearOfOtherText ==
    (last_op = "draw_pointing_arrows" /\ arrow_drawn) =>
        \A seg \in PainterSegments : \A r \in OtherTextRects :
            ~SegmentMeetsRect(seg, r)

\* C8, the reason the claim gives: the whole arrow lies inside the area that
\* was tested for the candidate.
C8_ArrowInsideTestedArea ==
    (last_op = "draw_pointing_arrows" /\ arrow_drawn) =>
        \A seg \in PainterSegments :
            LET c == Unwrap(arrow_at)
                area == ArrowArea(c.arrow_x, c.arrow_y, arrow_length)
            IN  RectContains(area, seg.a) /\ RectContains(area, seg.b)

\* every candidate position collided and the arrow went to the bottom position
C8_FallbackReached ==
    /\ last_op = "draw_pointing_arrows"
    /\ ~arrow_drawn
    /\ Len(painter) = 9

----------------------------------------------------------------------------
(* The PNG line rasteriser: draw_line_on_image *)

dx == Abs(x1 - x0)

dy == Abs(y1 - y0)

sx == IF x0 < x1 THEN 1 ELSE -1

sy_from_x == IF x0 < x1 THEN 1 ELSE -1

sy == IF y0 < y1 THEN 1 ELSE -1

\* draw_line_on_image is called for the endpoints (ax, ay) and (bx, by): the
\* locals before the loop
LineBegin(ax, ay, bx, by) ==
    /\ line_pc = "idle"
    /\ x0' = ax /\ y0' = ay /\ x1' = bx /\ y1' = by
    /\ err' = Abs(bx - ax) - Abs(by - ay)
    /\ x' = ax
    /\ y' = ay
    /\ plotted' = << >>
    /\ line_pc' = "loop"
    /\ last_op' = "draw_line_on_image"
    /\ last_result' = "Ok"
    /\ UNCHANGED << appVars, disk, histVars, uiVars, arrowVars, content_bounds >>

\* one iteration of the loop: draw at (x, y), stop at the end point, else step
LineStep ==
    /\ line_pc = "loop"
    /\ plotted' = Append(plotted, Pos2(x, y))
    /\ IF x = x1 /\ y = y1
       THEN /\ line_pc' = "done"
            /\ UNCHANGED << x, y, err >>
       ELSE LET e2 == 2 * err
                move_x == e2 > -dy
                move_y == e2 < dx
            IN  /\ x' = IF move_x THEN x + sx ELSE x
                /\ y' = IF move_y THEN y + sy ELSE y
                /\ err' = err - (IF move_x THEN dy ELSE 0) + (IF move_y THEN dx ELSE 0)
                /\ UNCHANGED line_pc
    /\ UNCHANGED << x0, y0, x1, y1, appVars, envVars, histVars, uiVars, arrowVars,
                    content_bounds >>

Coords == (-MaxCoord)..MaxCoord

InitLine ==
    /\ AppDefault
    /\ TransientDefault
    /\ EnvDefault
    /\ RoutinesIdle
    /\ UiDefault

NextLine ==
    \/ \E ax \in Coords, ay \in Coords, bx \in Coords, by \in Coords :
          LineBegin(ax, ay, bx, by)
    \/ LineStep

SpecLine == InitLine /\ [][NextLine]_vars

\* the larger of the two coordinate distances from p to the end point
DistanceToEnd(p) == Max2(Abs(x1 - p.x), Abs(y1 - p.y))

\* C9: the loop of draw_line_on_image terminates (while it runs it has drawn
\* at most max(|x1-x0|, |y1-y0|) points, and every iteration draws one), draws
\* (x0, y0) first and (x1, y1) last, draws exactly max(|x1-x0|, |y1-y0|) + 1
\* points, and each point differs from the one before by at most 1 in each
\* coordinate, never moving away from (x1, y1) and always one step nearer.
C9_LineConnectsEndpoints ==
    /\ (line_pc = "loop") =>
          /\ Len(plotted) <= Max2(dx, dy)
          /\ DistanceToEnd(Pos2(x, y)) = Max2(dx, dy) - Len(plotted)
    /\ (plotted # << >>) => plotted[1] = Pos2(x0, y0)
    /\ \A i \in 1..(Len(plotted) - 1) :
          /\ Abs(plotted[i + 1].x - plotted[i].x) <= 1
          /\ Abs(plotted[i + 1].y - plotted[i].y) <= 1
          /\ Abs(x1 - plotted[i + 1].x) <= Abs(x1 - plotted[i].x)
          /\ Abs(y1 - plotted[i + 1].y) <= Abs(y1 - plotted[i].y)
          /\ DistanceToEnd(plotted[i + 1]) = DistanceToEnd(plotted[i]) - 1
    /\ (line_pc = "done") =>
          /\ Len(plotted) = Max2(dx, dy) + 1
          /\ plotted[Len(plotted)] = Pos2(x1, y1)

\* a line up and to the left, steeper than it is wide, has been drawn
C9_Witness ==
    /\ line_pc = "done"
    /\ x0 = 1 /\ y0 = 2 /\ x1 = -1 /\ y1 = -3
    /\ Len(plotted) = 6
    /\ plotted[1] = Pos2(1, 2)
    /\ plotted[6] = Pos2(-1, -3)

----------------------------------------------------------------------------
(* Export bounds: calculate_content_bounds *)

\* an f32 of the model: a finite number, or one of the two infinities
F32(n) == [inf |-> 0, v |-> n]

\* f32::INFINITY
INFINITY == [inf |-> 1, v |-> 0]

\* f32::NEG_INFINITY
NEG_INFINITY == [inf |-> -1, v |-> 0]

\* the order of f32 on these values
f32_le(a, b) == a.inf < b.inf \/ (a.inf = b.inf /\ a.v <= b.v)

\* f32::min
f32_min(a, b) == IF f32_le(a, b) THEN a ELSE b

\* f32::max
f32_max(a, b) == IF f32_le(a, b) THEN b ELSE a

\* let padding = 20.0
padding == 20

\* the four accumulators as declared
BoundsStart ==
    [min_x |-> INFINITY, min_y |-> INFINITY,
     max_x |-> NEG_INFINITY, max_y |-> NEG_INFINITY]

\* the four min/max assignments of one loop body
Extend(acc, lo_x, lo_y, hi_x, hi_y) ==
    [min_x |-> f32_min(acc.min_x, F32(lo_x)),
     min_y |-> f32_min(acc.min_y, F32(lo_y)),
     max_x |-> f32_max(acc.max_x, F32(hi_x)),
     max_y |-> f32_max(acc.max_y, F32(hi_y))]

\* for point in &stroke.points, from the i-th point on
RECURSIVE PointsBounds(_, _, _)
PointsBounds(acc, points, i) ==
    IF i > Len(points) THEN acc
    ELSE LET point == points[i]
         IN  PointsBounds(Extend(acc, point.x, point.y, point.x, point.y),
                          points, i + 1)

\* for stroke in self.current_strokes(), from the i-th stroke on
RECURSIVE StrokesBounds(_, _, _)
StrokesBounds(acc, strokes, i) ==
    IF i > Len(strokes) THEN acc
    ELSE StrokesBounds(PointsBounds(acc, strokes[i].points, 1), strokes, i + 1)

\* what a non-blank line contributes, forgetting the height of the line
LineExtentNoHeight(t, line_idx) ==
    LET line == lines(t.text)[line_idx + 1]
        line_y == t.position.y + line_idx * line_height(t.font_size)
        estimated_width == estimated_text_width(line, t.font_size)
    IN  [lo_x |-> t.position.x, lo_y |-> line_y,
         hi_x |-> t.position.x + estimated_width, hi_y |-> line_y]

\* what a non-blank line contributes to the four accumulators
LineExtent(t, line_idx) ==
    LET line == lines(t.text)[line_idx + 1]
        line_y == t.position.y + line_idx * line_height(t.font_size)
        estimated_width == estimated_text_width(line, t.font_size)
    IN  [lo_x |-> t.position.x, lo_y |-> line_y,
         hi_x |-> t.position.x + estimated_width,
         hi_y |-> line_y + t.font_size]

\* for (line_idx, line) in lines.iter().enumerate(), from line_idx on
RECURSIVE LinesBounds(_, _, _)
LinesBounds(acc, t, line_idx) ==
    IF line_idx >= Len(lines(t.text)) THEN acc
    ELSE LET line == lines(t.text)[line_idx + 1]
             e == LineExtent(t, line_idx)
             next == IF ~trim_is_empty(line)
                     THEN Extend(acc, e.lo_x, e.lo_y, e.hi_x, e.hi_y)
                     ELSE acc
         IN  LinesBounds(next, t, line_idx + 1)

\* for text_element in self.current_text_elements(), from the i-th on
RECURSIVE TextsBounds(_, _, _)
TextsBounds(acc, text_elements, i) ==
    IF i > Len(text_elements) THEN acc
    ELSE TextsBounds(LinesBounds(acc, text_elements[i], 0), text_elements, i + 1)

\* calculate_content_bounds: (min_x, min_y, width, height)
calculate_content_bounds ==
    LET acc == TextsBounds(StrokesBounds(BoundsStart, current_strokes, 1),
                           current_text_elements, 1)
    IN  IF acc.min_x = INFINITY THEN << 0, 0, 800, 600 >>
        ELSE LET min_x == acc.min_x.v - padding
                 min_y == acc.min_y.v - padding
                 max_x == acc.max_x.v + padding
                 max_y == acc.max_y.v + padding
                 width == Max2(max_x - min_x, 400)
                 height == Max2(max_y - min_y, 300)
             IN  << min_x, min_y, width, height >>

\* the call of calculate_content_bounds by export_png
CalculateContentBounds ==
    /\ content_bounds' = Some(calculate_content_bounds)
    /\ last_op' = "calculate_content_bounds"
    /\ last_result' = "Ok"
    /\ UNCHANGED << appVars, disk, histVars, uiVars, arrowVars, lineVars >>

----------------------------------------------------------------------------
(* SpecBounds: export bounds of the pages of a notebook *)

T7 == TextElement(Pos2(480, 340), << "B", "a" >>, 20)

\* a stroke without points, as a project file can hold
S0 == Stroke(<< >>, BLACK, 2)

\* pages without content, with content smaller than the minimal picture, and
\* with content of every extent around the origin
BoundsContents ==
    { [strokes |-> << >>, text_elements |-> << >>],
      [strokes |-> << S0 >>, text_elements |-> << T4 >>],
      [strokes |-> << >>, text_elements |-> << T2 >>],
      [strokes |-> << S1 >>, text_elements |-> << >>],
      [strokes |-> << S2, S0, S1 >>, text_elements |-> << T2, T3, T1 >>],
      [strokes |-> << S0 >>, text_elements |-> << T4, T7 >>] }
    \cup { [strokes |-> << Stroke(<< Pos2(150 * a, 150 * b), Pos2(0, 0) >>, BLACK, 2) >>,
            text_elements |-> << T7 >>] : a \in Coords, b \in Coords }

InitBounds ==
    /\ is_notebook_mode = TRUE
    /\ \E c \in BoundsContents, d \in BoundsContents :
          pages = << Page(c.strokes, c.text_elements, PageName(1)),
                     Page(d.strokes, d.text_elements, PageName(2)) >>
    /\ current_page_index \in 0..1
    /\ TransientDefault
    /\ EnvDefault
    /\ RoutinesIdle
    /\ UiDefault

NextBounds ==
    \/ CalculateContentBounds
    \/ next_page
    \/ previous_page

SpecBounds == InitBounds /\ [][NextBounds]_vars

\* the current page has a stroke point or a non-blank text line
HasContent ==
    \/ \E i \in 1..Len(current_strokes) : current_strokes[i].points # << >>
    \/ \E i \in 1..Len(current_text_elements) :
          NonBlankLines(current_text_elements[i]) # {}

\* C10: when the current page has at least one stroke point or one non-blank
\* text line, calculate_content_bounds returns (min_x, min_y, width, height)
\* with width >= 400 and height >= 300 such that every stroke point and every
\* estimated rectangle of a non-blank text line lies inside
\* [min_x + 20, min_x + width - 20] x [min_y + 20, min_y + height - 20]; when
\* the page has neither, it returns (0, 0, 800, 600).
C10_BoundsContainContent ==
    (last_op = "calculate_content_bounds") =>
        LET b == Unwrap(content_bounds)
            min_x == b[1]
            min_y == b[2]
            width == b[3]
            height == b[4]
            inner == [left |-> min_x + 20, top |-> min_y + 20,
                      right |-> min_x + width - 20,
                      bottom |-> min_y + height - 20]
            Within(px, py) ==
                /\ inner.left <= px /\ px <= inner.right
                /\ inner.top <= py /\ py <= inner.bottom
        IN  IF HasContent
            THEN /\ width >= 400
                 /\ height >= 300
                 /\ \A i \in 1..Len(current_strokes) :
                       \A j \in 1..Len(current_strokes[i].points) :
                          Within(current_strokes[i].points[j].x,
                                 current_strokes[i].points[j].y)
                 /\ \A i \in 1..Len(current_text_elements) :
                       \A li \in NonBlankLines(current_text_elements[i]) :
                          LET r == ClaimedLineRect(current_text_elements[i], li)
                          IN  /\ Within(r.left, r.top)
                              /\ Within(r.right, r.bottom)
            ELSE b = << 0, 0, 800, 600 >>

\* bounds larger than the minimal picture have been computed for a page whose
\* lowest and rightmost content is a text line
C10_Witness ==
    /\ last_op = "calculate_content_bounds"
    /\ current_strokes = << Stroke(<< Pos2(-450, -300), Pos2(0, 0) >>, BLACK, 2) >>
    /\ current_text_elements = << T7 >>
    /\ content_bounds = Some(<< -470, -320, 994, 700 >>)

\* the default bounds have been returned for a page that holds a stroke
\* without points and a blank text
C10_WitnessEmpty ==
    /\ last_op = "calculate_content_bounds"
    /\ current_strokes = << S0 >>
    /\ current_text_elements = << T4 >>
    /\ content_bounds = Some(<< 0, 0, 800, 600 >>)

----------------------------------------------------------------------------
(* The notebook controls, the Clear button and the create-notebook dialog *)

\* the thread has panicked: the program has stopped
Panicked == last_result = "panic"

\* &self.pages[self.current_page_index] is inside the list
IndexInBounds == current_page_index < Len(pages)

DigitValue(c) ==
    CASE c = "0" -> 0 [] c = "1" -> 1 [] c = "2" -> 2 [] c = "3" -> 3
      [] c = "4" -> 4 [] c = "5" -> 5 [] c = "6" -> 6 [] c = "7" -> 7
      [] c = "8" -> 8 [] c = "9" -> 9

IsDigit(c) == c \in { "0", "1", "2", "3", "4", "5", "6", "7", "8", "9" }

\* the value of a sequence of decimal digits
RECURSIVE DigitsValue(_)
DigitsValue(ds) ==
    IF ds = << >> THEN 0
    ELSE 10 * DigitsValue(SubSeq(ds, 1, Len(ds) - 1)) + DigitValue(ds[Len(ds)])

\* str::parse::<usize>, which takes every digit as a page: an optional "+",
\* then at least one digit and nothing else (no sign "-", no blank); Ok(n) is
\* Some(n), Err is None. Overflow of usize needs more digits than the inputs
\* of the model have.
parse_usize_all_ok(s) == Some(0)

parse_usize(s) ==
    LET ds == IF s # << >> /\ Head(s) = "+" THEN Tail(s) ELSE s
    IN  IF ds # << >> /\ \A i \in 1..Len(ds) : IsDigit(ds[i])
        THEN Some(DigitsValue(ds))
        ELSE None

\* create_notebook without its last assignment
create_notebook_keeps_mode(page_count) ==
    /\ pages' = [i \in 1..page_count |-> Page(<< >>, << >>, PageName(i))]
    /\ current_page_index' = 0
    /\ UNCHANGED is_notebook_mode

\* create_notebook
create_notebook(page_count) ==
    /\ pages' = [i \in 1..page_count |-> Page(<< >>, << >>, PageName(i))]
    /\ current_page_index' = 0
    /\ is_notebook_mode' = TRUE

\* the button "Create Notebook", shown in single page mode only
OpenCreateDialog ==
    /\ ~is_notebook_mode
    /\ ~show_create_notebook_dialog
    /\ show_create_notebook_dialog' = TRUE
    /\ last_op' = "open_create_dialog"
    /\ last_result' = "Ok"
    /\ UNCHANGED << appVars, disk, histVars, routineVars, new_notebook_pages_input,
                    penVars, current_tool, textVars >>

\* typing in the dialog's text field
EditPagesInput(input) ==
    /\ show_create_notebook_dialog
    /\ input # new_notebook_pages_input
    /\ new_notebook_pages_input' = input
    /\ last_op' = "edit_pages_input"
    /\ last_result' = "Ok"
    /\ UNCHANGED << appVars, disk, histVars, routineVars, show_create_notebook_dialog,
                    penVars, current_tool, textVars >>

\* the dialog's Create button
CreatePressed ==
    /\ show_create_notebook_dialog
    /\ LET parsed == parse_usize(new_notebook_pages_input)
       IN  IF IsSome(parsed) /\ Unwrap(parsed) > 0 /\ Unwrap(parsed) <= 100
           THEN /\ create_notebook(Unwrap(parsed))
                /\ show_create_notebook_dialog' = FALSE
           ELSE UNCHANGED << pageVars, show_create_notebook_dialog >>
    /\ last_op' = "create_pressed"
    /\ last_result' = "Ok"
    /\ UNCHANGED << strokeVars, searchVars, selectVars, disk, histVars, routineVars,
                    new_notebook_pages_input, penVars, current_tool, textVars >>

\* the dialog's Cancel button
CancelPressed ==
    /\ show_create_notebook_dialog
    /\ show_create_notebook_dialog' = FALSE
    /\ last_op' = "cancel_pressed"
    /\ last_result' = "Ok"
    /\ UNCHANGED << appVars, disk, histVars, routineVars, new_notebook_pages_input,
                    penVars, current_tool, textVars >>

\* the current page with its strokes and text elements removed, the others as
\* they are, or all pages
ClearedPagesAll ==
    [i \in 1..Len(pages) |-> Page(<< >>, << >>, pages[i].name)]

ClearedPages ==
    [i \in 1..Len(pages) |->
        IF i = current_page_index + 1 THEN Page(<< >>, << >>, pages[i].name)
        ELSE pages[i]]

\* the Clear button; current_strokes_mut() indexes the pages and panics when
\* the index is outside the list
Clear ==
    /\ last_op' = "clear"
    /\ IF ~IndexInBounds
       THEN /\ last_result' = "panic"
            /\ UNCHANGED << appVars, textVars >>
       ELSE /\ pages' = ClearedPages
            /\ current_stroke' = << >>
            /\ is_drawing' = FALSE
            /\ text_input' = << >>
            /\ active_text_position' = None
            /\ search_results' = << >>
            /\ search_query' = << >>
            /\ selected_text_elements' = << >>
            /\ is_selecting_text' = FALSE
            /\ selection_start' = None
            /\ selection_end' = None
            /\ last_result' = "Ok"
            /\ UNCHANGED << current_page_index, is_notebook_mode, regex_mode,
                            search_error, text_font_size >>
    /\ UNCHANGED << disk, histVars, routineVars, dialogVars, penVars, current_tool >>

\* the status line of every frame, "Strokes: {} | Text: {}": current_strokes()
\* indexes the pages; with the index inside the list the frame changes nothing
StatusLabel ==
    /\ ~IndexInBounds
    /\ last_op' = "update"
    /\ last_result' = "panic"
    /\ UNCHANGED << appVars, disk, histVars, routineVars, uiVars >>

\* a .scribble file dropped on the window: load_project_from_path with that
\* file (None: it cannot be read)
DropFile(file) ==
    /\ disk' = file
    /\ saved' = None
    /\ LoadBody(file)
    /\ last_op' = "load_project_from_path"
    /\ UNCHANGED << gestureVars, selection_page, routineVars, uiVars >>

----------------------------------------------------------------------------
(* SpecNotebook: pages, dialogs, Clear and loads, from a single page *)

\* the text tool with an input being typed at a position
UiBusy ==
    /\ show_create_notebook_dialog = FALSE
    /\ new_notebook_pages_input = << "5" >>
    /\ stroke_color = from_rgb(200, 80, 0)
    /\ stroke_width = 10
    /\ current_tool = "Text"
    /\ text_input = << "a", "b" >>
    /\ text_font_size = 20
    /\ active_text_position = Some(Pos2(5, 5))

\* what the user types into the dialog
PagesInputs ==
    { << "5" >>, << "2" >>, << "0" >>, << "1", "0", "0" >>, << "1", "0", "1" >>,
      << "x" >>, << >>, << "+", "2" >>, << "-", "1" >>, << " ", "2" >> }

\* notebook files of other origin: without a page, and with a stored index
\* outside the page list
EmptyNotebook == [pages |-> << >>, current_page_index |-> 0, canvas_size |-> << 800, 600 >>]

DroppedFiles ==
    ForeignFiles
    \cup { EmptyNotebook,
           [pages |-> << SerializePage(Page(<< S1 >>, << T1, T2 >>, << "Notes" >>)),
                         SerializePage(Page(<< >>, << T3 >>, PageName(2))) >>,
            current_page_index |-> 1,
            canvas_size |-> << 800, 600 >>] }

InitNotebook ==
    /\ SinglePageStates
    /\ TransientDefault \/ TransientBusy
    /\ EnvDefault
    /\ RoutinesIdle
    /\ UiDefault \/ UiBusy

NextNotebook ==
    \/ ~Panicked /\ OpenCreateDialog
    \/ ~Panicked /\ \E input \in PagesInputs : EditPagesInput(input)
    \/ ~Panicked /\ CreatePressed
    \/ ~Panicked /\ CancelPressed
    \/ ~Panicked /\ add_new_page
    \/ ~Panicked /\ next_page
    \/ ~Panicked /\ previous_page
    \/ ~Panicked /\ Clear
    \/ ~Panicked /\ \E f \in { None } \cup { Some(j) : j \in DroppedFiles } : DropFile(f)
    \/ ~Panicked /\ load_project
    \/ ~Panicked /\ StatusLabel

SpecNotebook == InitNotebook /\ [][NextNotebook]_vars

\* C11: in every state reachable by creating notebooks, adding and turning
\* pages, Clear and loads, pages is non-empty and current_page_index is less
\* than the number of pages.
C11_IndexValid == Len(pages) > 0 /\ current_page_index < Len(pages)

\* C11, the consequence: current_page() never indexes outside the list and
\* next_page never subtracts from 0, so nothing panics.
C11_NoPanic == ~Panicked

\* C12: in every reachable state, is_notebook_mode = false implies that there
\* is exactly one page and current_page_index = 0 (so a save in single page
\* mode, which writes the current page only, leaves out no page).
C12_SinglePageModeHasOnePage ==
    ~is_notebook_mode => (Len(pages) = 1 /\ current_page_index = 0)

\* a project file has been loaded into a notebook: single page mode again
C12_Witness ==
    /\ last_op = "load_project_from_path"
    /\ last_result = "Ok"
    /\ ~is_notebook_mode
    /\ pages = << Page(<< S2 >>, << T1 >>, << "Imported Page" >>) >>
    /\ new_notebook_pages_input = << "2" >>

\* the number an input of the dialog stands for, 0 - 1 for none
InputNumber(input) ==
    CASE input = << "5" >> -> 5
      [] input = << "2" >> -> 2
      [] input = << "+", "2" >> -> 2
      [] input = << "0" >> -> 0
      [] input = << "1", "0", "0" >> -> 100
      [] input = << "1", "0", "1" >> -> 101
      [] OTHER -> -1

\* C13: pressing Create with an input that parses to an integer n with
\* 1 <= n <= 100 replaces all pages by exactly n pages without strokes and
\* text, named "Page 1" .. "Page n" in order, sets current_page_index = 0 and
\* is_notebook_mode = true and closes the dialog; with any other input pages,
\* current_page_index and is_notebook_mode are unchanged and the dialog stays
\* open.
C13_CreateNotebook ==
    [][ (last_op' = "create_pressed") =>
           LET n == InputNumber(new_notebook_pages_input)
           IN  IF 1 <= n /\ n <= 100
               THEN /\ Len(pages') = n
                    /\ \A i \in 1..n :
                          /\ pages'[i].strokes = << >>
                          /\ pages'[i].text_elements = << >>
                          /\ pages'[i].name = << "Page ", i >>
                    /\ current_page_index' = 0
                    /\ is_notebook_mode' = TRUE
                    /\ show_create_notebook_dialog' = FALSE
               ELSE /\ pages' = pages
                    /\ current_page_index' = current_page_index
                    /\ is_notebook_mode' = is_notebook_mode
                    /\ show_create_notebook_dialog' = TRUE
      ]_vars

\* a notebook of 100 pages has been created over a page that had content
C13_Witness ==
    /\ last_op = "create_pressed"
    /\ new_notebook_pages_input = << "1", "0", "0" >>
    /\ Len(pages) = 100
    /\ pages[100] = Page(<< >>, << >>, PageName(100))
    /\ is_notebook_mode
    /\ ~show_create_notebook_dialog

\* Create has been pressed with 101 and nothing happened
C13_WitnessRejected ==
    /\ last_op = "create_pressed"
    /\ new_notebook_pages_input = << "1", "0", "1" >>
    /\ show_create_notebook_dialog
    /\ ~is_notebook_mode
    /\ pages = << Page(<< S1 >>, << T1 >>, PageName(1)) >>

\* C14: in a state whose index is inside the page list, next_page increases
\* current_page_index by 1 unless it is the last page, where it changes
\* nothing; previous_page decreases it by 1 unless it is 0, where it changes
\* nothing; add_new_page appends exactly one empty page named "Page k" with
\* k = previous page count + 1 and leaves current_page_index alone. None of
\* the three changes an existing page.
C14_NavigationAndAddPage ==
    [][ IndexInBounds =>
          /\ (last_op' = "next_page" /\ last_result' = "Ok") =>
                /\ current_page_index' =
                      IF current_page_index = Len(pages) - 1
                      THEN current_page_index
                      ELSE current_page_index + 1
                /\ pages' = pages
          /\ (last_op' = "previous_page") =>
                /\ current_page_index' =
                      IF current_page_index = 0 THEN 0 ELSE current_page_index - 1
                /\ pages' = pages
          /\ (last_op' = "add_new_page") =>
                /\ Len(pages') = Len(pages) + 1
                /\ pages'[Len(pages) + 1] =
                      Page(<< >>, << >>, << "Page ", Len(pages) + 1 >>)
                /\ \A i \in 1..Len(pages) : pages'[i] = pages[i]
                /\ current_page_index' = current_page_index
      ]_vars

\* a page has been added to a notebook of two pages with content, the first
\* of which is shown
C14_Witness ==
    /\ last_op = "add_new_page"
    /\ Len(pages) = 3
    /\ current_page_index = 0
    /\ pages[1].text_elements = << T1, T2 >>
    /\ pages[2].text_elements = << T3 >>
    /\ pages[3] = Page(<< >>, << >>, PageName(3))

\* next_page has been pressed on the last page
C14_WitnessLastPage ==
    /\ last_op = "next_page"
    /\ Len(pages) = 2
    /\ current_page_index = 1

\* C15: Clear empties the strokes and text elements of the current page and
\* resets current_stroke, is_drawing, text_input, active_text_position,
\* search_results, search_query, selected_text_elements, is_selecting_text,
\* selection_start and selection_end; the number of pages, current_page_index,
\* is_notebook_mode, the current page's name and the strokes and text elements
\* of every other page are unchanged.
C15_ClearCurrentPageOnly ==
    [][ (last_op' = "clear" /\ last_result' = "Ok") =>
          /\ Len(pages') = Len(pages)
          /\ current_page_index' = current_page_index
          /\ is_notebook_mode' = is_notebook_mode
          /\ \A i \in 1..Len(pages) :
                /\ pages'[i].name = pages[i].name
                /\ IF i = current_page_index + 1
                   THEN /\ pages'[i].strokes = << >>
                        /\ pages'[i].text_elements = << >>
                   ELSE /\ pages'[i].strokes = pages[i].strokes
                        /\ pages'[i].text_elements = pages[i].text_elements
          /\ current_stroke' = << >>
          /\ is_drawing' = FALSE
          /\ text_input' = << >>
          /\ active_text_position' = << >>
          /\ search_results' = << >>
          /\ search_query' = << >>
          /\ selected_text_elements' = << >>
          /\ is_selecting_text' = FALSE
          /\ selection_start' = << >>
          /\ selection_end' = << >>
      ]_vars

\* the second page of a notebook has been cleared while the first one keeps
\* its content
C15_Witness ==
    /\ last_op = "clear"
    /\ last_result = "Ok"
    /\ Len(pages) = 2
    /\ current_page_index = 1
    /\ pages[1] = Page(<< S1 >>, << T1, T2 >>, << "Notes" >>)
    /\ pages[2] = Page(<< >>, << >>, PageName(2))

\* the transient state the claim lists is reset
TransientIsReset ==
    /\ current_stroke = << >>
    /\ is_drawing = FALSE
    /\ selected_text_elements = << >>
    /\ is_selecting_text = FALSE
    /\ selection_start = << >>
    /\ selection_end = << >>
    /\ search_results = << >>
    /\ search_query = << >>

\* a load has just succeeded; the file it read is on disk
LoadSucceeded == LoadRan /\ last_result = "Ok"

\* C16: after a successful load (notebook or single page file) current_stroke
\* is empty, is_drawing is false, selected_text_elements is empty,
\* is_selecting_text is false, selection_start and selection_end are None and
\* search_results and search_query are empty; and for a notebook file
\* current_page_index equals min(stored index, number of loaded pages - 1).
C16_LoadResetsTransient ==
    LoadSucceeded =>
        /\ TransientIsReset
        /\ is_notebook_mode =>
              current_page_index =
                 Min2(Unwrap(disk).current_page_index, Len(pages) - 1)

\* the same for the files that hold at least one page
C16_HoldsWithPages ==
    (LoadSucceeded /\ Len(pages) > 0) =>
        /\ TransientIsReset
        /\ is_notebook_mode =>
              current_page_index =
                 Min2(Unwrap(disk).current_page_index, Len(pages) - 1)

\* a notebook file of two pages whose stored index is 5 has been loaded
C16_ClampReached ==
    /\ LoadSucceeded
    /\ is_notebook_mode
    /\ Unwrap(disk).current_page_index = 5
    /\ Len(pages) = 2
    /\ current_page_index = 1
    /\ TransientIsReset

----------------------------------------------------------------------------
(* The tool selector, the pen and the Draw tool *)

MaxStrokePoints == 3

\* the three selectable values of the tool
ChooseTool(tool) ==
    /\ tool # current_tool
    /\ current_tool' = tool
    /\ last_op' = "choose_tool"
    /\ last_result' = "Ok"
    /\ UNCHANGED << appVars, disk, histVars, routineVars, dialogVars, penVars,
                    textVars >>

\* the colour button
SetStrokeColor(color) ==
    /\ color # stroke_color
    /\ stroke_color' = color
    /\ last_op' = "set_stroke_color"
    /\ last_result' = "Ok"
    /\ UNCHANGED << appVars, disk, histVars, routineVars, dialogVars, stroke_width,
                    current_tool, textVars >>

\* the width slider, shown with the Draw tool
SetStrokeWidth(width) ==
    /\ current_tool = "Draw"
    /\ width # stroke_width
    /\ stroke_width' = width
    /\ last_op' = "set_stroke_width"
    /\ last_result' = "Ok"
    /\ UNCHANGED << appVars, disk, histVars, routineVars, dialogVars, stroke_color,
                    current_tool, textVars >>

\* a drag begins on the canvas at p; seen is what the Draw tool is given of it
GestureBegins(p, seen) ==
    /\ ~dragging
    /\ gestures < MaxGestures
    /\ dragging' = TRUE
    /\ gestures' = gestures + 1
    /\ pointer_pos' = Some(p)
    /\ gesture_points' = seen
    /\ UNCHANGED << drag_base, selection_page >>

\* the pointer moves to p during the drag
GestureMoves(p, seen) ==
    /\ dragging
    /\ Len(gesture_points) < MaxStrokePoints
    /\ pointer_pos' = Some(p)
    /\ gesture_points' = gesture_points \o seen
    /\ UNCHANGED << dragging, gestures, drag_base, selection_page >>

\* the button is released
GestureEnds ==
    /\ dragging
    /\ dragging' = FALSE
    /\ UNCHANGED << pointer_pos, gestures, drag_base, gesture_points, selection_page >>

\* Draw tool, response.drag_started() at pointer position p
DrawDragStarted(p) ==
    /\ current_tool = "Draw"
    /\ GestureBegins(p, << p >>)
    /\ is_drawing' = TRUE
    /\ current_stroke' = << p >>
    /\ last_op' = "draw_drag_started"
    /\ last_result' = "Ok"
    /\ UNCHANGED << pageVars, searchVars, selectVars, disk, saved, routineVars, uiVars >>

\* Draw tool, response.dragged() at pointer position p
DrawDragged(p) ==
    /\ current_tool = "Draw"
    /\ GestureMoves(p, << p >>)
    /\ current_stroke' = IF is_drawing THEN Append(current_stroke, p) ELSE current_stroke
    /\ last_op' = "draw_dragged"
    /\ last_result' = "Ok"
    /\ UNCHANGED << pageVars, is_drawing, searchVars, selectVars, disk, saved,
                    routineVars, uiVars >>

\* the condition of the commit: self.is_drawing && self.current_stroke.len() > 1
Commits == is_drawing /\ Len(current_stroke) > 1

\* Draw tool, response.drag_stopped()
DrawDragStopped ==
    /\ current_tool = "Draw"
    /\ GestureEnds
    /\ pages' =
          IF Commits
          THEN [pages EXCEPT ![current_page_index + 1].strokes =
                  Append(@, Stroke(current_stroke, stroke_color, stroke_width))]
          ELSE pages
    /\ current_stroke' = << >>
    /\ is_drawing' = FALSE
    /\ last_op' = "draw_drag_stopped"
    /\ last_result' = "Ok"
    /\ UNCHANGED << current_page_index, is_notebook_mode, searchVars, selectVars, disk,
                    saved, routineVars, uiVars >>

\* Text tool: its branch looks at response.clicked() only, a drag begins,
\* moves and ends without effect
TextDragStarted(p) ==
    /\ current_tool = "Text"
    /\ GestureBegins(p, << >>)
    /\ last_op' = "text_drag_started"
    /\ last_result' = "Ok"
    /\ UNCHANGED << appVars, disk, saved, routineVars, uiVars >>

TextDragged(p) ==
    /\ current_tool = "Text"
    /\ pointer_pos # Some(p)
    /\ GestureMoves(p, << >>)
    /\ last_op' = "text_dragged"
    /\ last_result' = "Ok"
    /\ UNCHANGED << appVars, disk, saved, routineVars, uiVars >>

TextDragStopped ==
    /\ current_tool = "Text"
    /\ GestureEnds
    /\ last_op' = "text_drag_stopped"
    /\ last_result' = "Ok"
    /\ UNCHANGED << appVars, disk, saved, routineVars, uiVars >>

----------------------------------------------------------------------------
(* SpecDraw: drawing strokes, with the tool and the pen changed at any time *)

DrawPositions == { Pos2(5, 5), Pos2(12, 10) }

PenColors == { BLACK, from_rgb(200, 80, 0) }

PenWidths == { 2, 10 }

InitDraw ==
    /\ is_notebook_mode = FALSE
    /\ current_page_index = 0
    /\ pages \in { << Page(<< >>, << >>, PageName(1)) >>,
                   << Page(<< S1 >>, << T1 >>, << "Imported Page" >>) >> }
    /\ TransientDefault
    /\ EnvDefault
    /\ RoutinesIdle
    /\ UiDefault

NextDraw ==
    \/ \E p \in DrawPositions : DrawDragStarted(p)
    \/ \E p \in DrawPositions : DrawDragged(p)
    \/ DrawDragStopped
    \/ \E p \in DrawPositions : TextDragStarted(p)
    \/ \E p \in DrawPositions : TextDragged(p)
    \/ TextDragStopped
    \/ \E tool \in { "Draw", "Text" } : ChooseTool(tool)
    \/ \E color \in PenColors : SetStrokeColor(color)
    \/ \E width \in PenWidths : SetStrokeWidth(width)

SpecDraw == InitDraw /\ [][NextDraw]_vars

\* C17: a stroke is appended to the current page only at a drag-stop of the
\* Draw tool, and only if is_drawing is true and current_stroke holds at least
\* 2 points; the appended stroke has exactly the points collected (the
\* positions given to the Draw tool) since the last drag-start, in order, and
\* the colour and width set at the time of the drag-stop; after every
\* drag-stop of the Draw tool current_stroke is empty and is_drawing is false.
C17_StrokeCommit ==
    [][ /\ (pages' # pages) =>
              /\ last_op' = "draw_drag_stopped"
              /\ is_drawing
              /\ Len(current_stroke) >= 2
              /\ pages' = [pages EXCEPT ![current_page_index + 1].strokes =
                             Append(@, [points |-> gesture_points,
                                        color |-> stroke_color,
                                        width |-> stroke_width])]
        /\ (last_op' = "draw_drag_stopped") =>
              /\ current_stroke' = << >>
              /\ is_drawing' = FALSE
      ]_vars

\* C17, the consequence: every stroke created by drawing has at least 2
\* points.
C17_StrokesHaveTwoPoints ==
    \A i \in 1..Len(current_strokes) :
        current_strokes[i] = S1 \/ Len(current_strokes[i].points) >= 2

\* a stroke of three points has been committed with the pen changed during
\* the drag
C17_CommitReached ==
    /\ last_op = "draw_drag_stopped"
    /\ current_strokes =
          << Stroke(<< Pos2(5, 5), Pos2(12, 10), Pos2(5, 5) >>, from_rgb(200, 80, 0), 10) >>
    /\ current_stroke = << >>
    /\ ~is_drawing

----------------------------------------------------------------------------
(* The Text tool and the floating text input *)

MaxTexts == 2

\* char::is_whitespace on the characters of the model, and the same taking
\* the blank only
is_whitespace_blank_only(c) == c = " "

is_whitespace(c) == c \in { " ", NL }

\* str::trim_start, str::trim_end, str::trim
RECURSIVE trim_start(_)
trim_start(s) ==
    IF s # << >> /\ is_whitespace(Head(s)) THEN trim_start(Tail(s)) ELSE s

RECURSIVE trim_end(_)
trim_end(s) ==
    IF s # << >> /\ is_whitespace(s[Len(s)])
    THEN trim_end(SubSeq(s, 1, Len(s) - 1))
    ELSE s

trim(s) == trim_end(trim_start(s))

\* the number of text elements of all pages
RECURSIVE TextCount(_)
TextCount(ps) ==
    IF ps = << >> THEN 0 ELSE Len(Head(ps).text_elements) + TextCount(Tail(ps))

\* Text tool, response.clicked() at pointer position p
TextClicked(p) ==
    /\ current_tool = "Text"
    /\ ~dragging
    /\ active_text_position' = Some(p)
    /\ text_input' = << >>
    /\ pointer_pos' = Some(p)
    /\ last_op' = "text_clicked"
    /\ last_result' = "Ok"
    /\ UNCHANGED << appVars, disk, saved, dragging, gestures, drag_base, gesture_points,
                    selection_page,
                    routineVars, dialogVars, penVars, current_tool, text_font_size >>

\* typing in the floating input
TypeText(input) ==
    /\ IsSome(active_text_position)
    /\ input # text_input
    /\ text_input' = input
    /\ last_op' = "type_text"
    /\ last_result' = "Ok"
    /\ UNCHANGED << appVars, disk, histVars, routineVars, dialogVars, penVars,
                    current_tool, text_font_size, active_text_position >>

\* the font size slider, shown with the Text tool
SetFontSize(font_size) ==
    /\ current_tool = "Text"
    /\ font_size # text_font_size
    /\ text_font_size' = font_size
    /\ last_op' = "set_font_size"
    /\ last_result' = "Ok"
    /\ UNCHANGED << appVars, disk, histVars, routineVars, dialogVars, penVars,
                    current_tool, text_input, active_text_position >>

\* the body of the Add button and of Ctrl+Enter, with text_pos the position
\* of the floating input
AddText(text_pos) ==
    IF trim(text_input) # << >>
    THEN /\ pages' = [pages EXCEPT ![current_page_index + 1].text_elements =
                        Append(@, TextElement(text_pos, text_input, text_font_size))]
         /\ text_input' = << >>
         /\ active_text_position' = None
    ELSE UNCHANGED << pages, text_input, active_text_position >>

\* the Add button of the floating input
AddPressed ==
    /\ IsSome(active_text_position)
    /\ TextCount(pages) < MaxTexts
    /\ AddText(Unwrap(active_text_position))
    /\ last_op' = "add_pressed"
    /\ last_result' = "Ok"
    /\ UNCHANGED << current_page_index, is_notebook_mode, strokeVars, searchVars,
                    selectVars, disk, histVars, routineVars, dialogVars, penVars,
                    current_tool, text_font_size >>

\* Ctrl+Enter while the floating input is shown
CtrlEnterPressed ==
    /\ IsSome(active_text_position)
    /\ TextCount(pages) < MaxTexts
    /\ AddText(Unwrap(active_text_position))
    /\ last_op' = "ctrl_enter_pressed"
    /\ last_result' = "Ok"
    /\ UNCHANGED << current_page_index, is_notebook_mode, strokeVars, searchVars,
                    selectVars, disk, histVars, routineVars, dialogVars, penVars,
                    current_tool, text_font_size >>

\* the Cancel button of the floating input, or Escape
CancelTextPressed ==
    /\ IsSome(active_text_position)
    /\ active_text_position' = None
    /\ text_input' = << >>
    /\ last_op' = "cancel_text_pressed"
    /\ last_result' = "Ok"
    /\ UNCHANGED << appVars, disk, histVars, routineVars, dialogVars, penVars,
                    current_tool, text_font_size >>

----------------------------------------------------------------------------
(* SpecText: placing text on the pages of a notebook *)

TextInputs ==
    { << >>, << " " >>, << NL, " " >>, << "a" >>, << " ", "b", NL >> }

FontSizes == { 10, 20 }

InitText ==
    /\ is_notebook_mode = TRUE
    /\ pages = << Page(<< >>, << >>, PageName(1)), Page(<< >>, << >>, PageName(2)) >>
    /\ current_page_index = 0
    /\ TransientDefault
    /\ EnvDefault
    /\ RoutinesIdle
    /\ UiDefault

NextText ==
    \/ \E p \in DrawPositions : TextClicked(p)
    \/ \E input \in TextInputs : TypeText(input)
    \/ \E font_size \in FontSizes : SetFontSize(font_size)
    \/ AddPressed
    \/ CtrlEnterPressed
    \/ CancelTextPressed
    \/ \E tool \in { "Draw", "Text" } : ChooseTool(tool)
    \/ next_page
    \/ previous_page

SpecText == InitText /\ [][NextText]_vars

\* the text holds a character that is not white space
HasNonWhitespace(text) == \E i \in 1..Len(text) : text[i] \notin { " ", "NL" }

\* C18: while active_text_position = Some(p), Add (button or Ctrl+Enter)
\* appends a text element to the current page only if text_input contains a
\* non-whitespace character, and then the element has position p, the text of
\* the input and font size text_font_size, and text_input becomes empty and
\* active_text_position None; with a blank input Add changes nothing; Cancel
\* or Escape sets active_text_position to None and clears text_input without
\* adding an element. Hence every text element created through the UI has
\* non-blank text.
C18_TextPlacement ==
    /\ [][ /\ (last_op' \in { "add_pressed", "ctrl_enter_pressed" }) =>
                 IF HasNonWhitespace(text_input)
                 THEN /\ pages' =
                            [pages EXCEPT ![current_page_index + 1].text_elements =
                               Append(@, [position |-> active_text_position[1],
                                          text |-> text_input,
                                          font_size |-> text_font_size])]
                      /\ text_input' = << >>
                      /\ active_text_position' = << >>
                 ELSE /\ pages' = pages
                      /\ text_input' = text_input
                      /\ active_text_position' = active_text_position
           /\ (last_op' = "cancel_text_pressed") =>
                 /\ active_text_position' = << >>
                 /\ text_input' = << >>
                 /\ pages' = pages
           /\ (pages' # pages) => last_op' \in { "add_pressed", "ctrl_enter_pressed" }
         ]_vars
    /\ [](\A i \in 1..Len(pages) : \A j \in 1..Len(pages[i].text_elements) :
             HasNonWhitespace(pages[i].text_elements[j].text))

\* text with a blank, a letter and a line break has been added to the second
\* page with Ctrl+Enter, at font size 10
C18_Witness ==
    /\ last_op = "ctrl_enter_pressed"
    /\ current_page_index = 1
    /\ pages[1].text_elements = << >>
    /\ pages[2].text_elements =
          << [position |-> Pos2(12, 10), text |-> << " ", "b", "NL" >>, font_size |-> 10] >>
    /\ text_input = << >>
    /\ active_text_position = << >>

\* Add has been pressed with a line break and a blank as input: nothing added
C18_WitnessBlank ==
    /\ last_op = "add_pressed"
    /\ text_input = << "NL", " " >>
    /\ active_text_position = << Pos2(5, 5) >>
    /\ TextCount(pages) = 0

----------------------------------------------------------------------------
(* Claims about the start and the end of a Select tool drag, under SpecSelect *)

C19_WitnessSelect ==
    /\ last_op = "drag_started"
    /\ gestures = 2
    /\ is_selecting_text
    /\ selected_text_elements = << >>
    /\ get_text_element_at_position(pointer_pos[1]) # << >>

\* a drag that selected two elements has stopped
C19_WitnessStopped ==
    /\ last_op = "update_text_selection"
    /\ ~dragging
    /\ ~is_selecting_text
    /\ Len(selected_text_elements) = 2

----------------------------------------------------------------------------
(* SpecSelectPages: the Select tool's gestures and the changes of page *)

InitSelectPages ==
    /\ \/ /\ is_notebook_mode = TRUE
          /\ pages = << Page(<< >>, << T1, T2 >>, PageName(1)),
                        Page(<< S1 >>, << T2, T3, T1 >>, PageName(2)) >>
       \/ /\ is_notebook_mode = FALSE
          /\ pages = << Page(<< >>, << T2, T3, T1 >>, PageName(1)) >>
    /\ current_page_index = 0
    /\ TransientDefault
    /\ EnvDefault
    /\ RoutinesIdle
    /\ UiSelectTool

\* inside "ab" of T1, the corner of its rectangle, the second line of T2
SelectPagesPositions == { Pos2(5, 5), Pos2(12, 10), Pos2(22, 15) }

\* the page buttons and the dialog are used between two drags
NextSelectPages ==
    \/ \E p \in SelectPagesPositions : SelectDragStarted(p)
    \/ \E p \in SelectPagesPositions : SelectDragged(p)
    \/ SelectDragStopped
    \/ \E p \in SelectPagesPositions : SelectClicked(p)
    \/ ~dragging /\ next_page
    \/ ~dragging /\ previous_page
    \/ ~dragging /\ add_new_page
    \/ ~dragging /\ OpenCreateDialog
    \/ ~dragging /\ CreatePressed

SpecSelectPages == InitSelectPages /\ [][NextSelectPages]_vars

\* C20: a drag moves only text that was selected on the page being shown: for
\* any sequence of selections, page changes (next_page, previous_page,
\* add_new_page, create_notebook) and drags, drag_selected_text never changes
\* the position of a text element that was not put into the selection by
\* update_text_selection on the page that is current at the time of the drag.
C20_DragMovesOnlySelectedHere ==
    [][ (last_op' = "drag_selected_text") =>
           \A i \in 1..Len(pages) : \A j \in 1..Len(pages[i].text_elements) :
              (pages'[i].text_elements[j].position # pages[i].text_elements[j].position)
              => /\ i = current_page_index + 1
                 /\ selection_page = << current_page_index >>
                 /\ \E k \in 1..Len(selected_text_elements) :
                       selected_text_elements[k] = j - 1
      ]_vars

\* a drag of a selection made on the page shown has moved an element
C20_DragReached ==
    /\ last_op = "drag_selected_text"
    /\ selection_page = << current_page_index >>
    /\ drag_base # << >>
    /\ drag_base[1].text_elements # pages[current_page_index + 1].text_elements

----------------------------------------------------------------------------
(* Search results and the page shown, under SpecSearch *)

\* the 0-based indices of the current page's text elements that match
\* search_query under the current regex_mode
CurrentHits ==
    IF regex_mode
    THEN IF RegexValid(search_query) THEN RegexHits ELSE { }
    ELSE PlainHits

\* C21: search results stay consistent with the page shown: in every reachable
\* state, each index in search_results is a valid index into the current
\* page's text elements and the element at that index matches search_query
\* under the current regex_mode, also after page navigation and after toggling
\* the Regex checkbox, without the user editing the query.
C21_SearchResultsConsistent ==
    \A k \in 1..Len(search_results) :
        /\ search_results[k] < Len(current_text_elements)
        /\ search_results[k] \in CurrentHits

\* a search has found two elements of a page of three
C21_SearchReached ==
    /\ last_op = "perform_search"
    /\ Len(current_text_elements) = 3
    /\ Len(search_results) = 2
    /\ \A k \in 1..Len(search_results) : search_results[k] \in CurrentHits

====
